---- MODULE Spec2Model ----
(***************************************************************************)
(* The voice-call dialogue machine of the appointment concierge            *)
(* (src/unnamed/part_001): the call session store, the /voice, /gather and *)
(* /status webhooks, the retry scheduler (scheduleRetry / cancelRetry and  *)
(* its timer callback), the /call endpoint and the /sms reply webhook.     *)
(*                                                                         *)
(* An utterance is the sequence of its whitespace-separated words.  The    *)
(* regular expressions of the source are all of the shape \b(a|b|...)\b,   *)
(* so a match is an alternative occurring as a run of whole words.         *)
(* Timestamps are milliseconds; null timestamps are 0 (both are falsy in   *)
(* every test the source makes on them, and the clock is always positive). *)
(* Spoken lines, message bodies and time values are sequences of strings.  *)
(***************************************************************************)
EXTENDS Integers, Sequences, FiniteSets, TLC

\* ---------------------------------------------------------------- limits
MAX_CALL_MS == 180000
MAX_HOLD_MS == 90000
DEFAULT_RETRY_MS == 900000
SHORT_WAIT_MS == 300000

\* ---------------------------------------------------------------- bounds
\* the clock advances in steps of TickMs: one step passes the hold ceiling and
\* reaches the call cap, two pass the call cap
TickMs == MAX_CALL_MS
\* placements followed at once, and calls the provider accepts in Spec
MaxCalls == 1
\* transcript entries all sessions together may hold before turns are cut off
MaxTranscript == 4
\* the same, where only proposals and agreement are followed
MaxDialogue == 6

NoTime == 0
NoConfirmed == <<>>
NoCallback == ""

\* ------------------------------------------------------------ vocabulary
\* String.prototype.toLowerCase on one word of the vocabulary
ToLowerWord(w) ==
  CASE w = "Yes" -> "yes"
    [] w = "Tuesday" -> "tuesday"
    [] w = "No" -> "no"
    [] w = "RETRY" -> "retry"
    [] w = "CANCEL" -> "cancel"
    [] w = "WAIT" -> "wait"
    [] w = "HELP" -> "help"
    [] OTHER -> w

ToLower(speech) == [i \in DOMAIN speech |-> ToLowerWord(speech[i])]

\* RegExp.test for a pattern \b(alt1|alt2|...)\b: some alternative occurs
\* in the text as a run of whole words
Matches(words, alts) ==
  \E a \in alts : \E i \in 1..Len(words) :
    /\ i + Len(a) - 1 <= Len(words)
    /\ \A k \in 1..Len(a) : words[i + k - 1] = a[k]

YesRe == { <<"yes">>, <<"yeah">>, <<"yep">>, <<"works">>, <<"okay">>, <<"ok">>,
           <<"sure">>, <<"that's", "fine">>, <<"perfect">>, <<"sounds", "good">> }

NoRe == { <<"no">>, <<"nope">>, <<"not", "available">>, <<"can't">>, <<"unavailable">> }

DayRe == { <<"mon">>, <<"tue">>, <<"wed">>, <<"thu">>, <<"fri">>, <<"sat">>, <<"sun">>,
           <<"today">>, <<"tomorrow">>, <<"next">> }

\* \b\d{1,2}(:\d{2})?\s?(am|pm)?\b over the words of the vocabulary
ClockRe == { <<"2pm">>, <<"2">>, <<"10:30">>, <<"2", "pm">> }

DayPartRe == { <<"morning">>, <<"afternoon">>, <<"evening">>, <<"noon">>, <<"midday">> }

HoldRe == { <<"please", "hold">>, <<"hold", "on">>, <<"one", "moment">>,
            <<"just", "a", "moment">>, <<"put", "you", "on", "hold">>,
            <<"one", "sec">>, <<"minute">> }

WalkInRe == { <<"come", "any", "time">>, <<"come", "anytime">>, <<"walk-in">>,
              <<"walk", "in">>, <<"walkin">>, <<"anytime", "today">>,
              <<"free", "anytime">> }

\* the intent chain of /gather
Intent(lower) ==
  IF Matches(lower, YesRe) THEN "yes"
  ELSE IF Matches(lower, NoRe) THEN "no"
  ELSE IF Matches(lower, DayRe) \/ Matches(lower, ClockRe) \/ Matches(lower, DayPartRe)
       THEN "time"
  ELSE "other"

IsHold(lower) == Matches(lower, HoldRe)

IsWalkIn(lower) == Matches(lower, WalkInRe)

\* SpeechResult values the telephony provider may deliver (already trimmed)
Utterances ==
  { <<>>,
    <<"Yes">>,
    <<"yes", "one", "moment">>,
    <<"No">>,
    <<"Tuesday", "at", "2pm">>,
    <<"please", "hold">>,
    <<"walk", "in">>,
    <<"we're", "closed">> }

\* Body values of an inbound text (already trimmed)
SmsBodies == { <<"CANCEL">>, <<"RETRY">>, <<"WAIT", "15">>, <<"HELP">> }

StopRe == { <<"stop">>, <<"end">>, <<"unsubscribe">>, <<"quit">>, <<"cancel">> }

StartRe == { <<"start">> }

HelpRe == { <<"help">> }

RetryRe == { <<"retry">>, <<"now">>, <<"call", "again">>, <<"callagain">>,
             <<"call", "back">>, <<"callback">> }

\* CallStatus values of the status webhook (lower case already)
CallStatuses == { "ringing", "completed", "no-answer" }

\* /(failed|busy|no-answer|canceled)/i.test(callStatus)
FailedRe(callStatus) == callStatus \in { "failed", "busy", "no-answer", "canceled" }

\* callback identities, and the requests the callers of startClinicCall make
Patients == { "p1" }

Requests ==
  { [to |-> "clinicA", clinicName |-> "A", callback |-> "p1"],
    [to |-> "clinicB", clinicName |-> "B", callback |-> NoCallback],
    [to |-> "", clinicName |-> "A", callback |-> "p1"] }

NoDetails == [to |-> "", clinicName |-> "", callback |-> NoCallback]

\* ------------------------------------------------------------- the lines
ContextLostLine == <<"I lost the call context. Goodbye.">>
WrapUpLine == <<"I have to wrap here. We'll follow up by text. Thank you!">>
FollowUpLine == <<"I'll follow up later. Thank you!">>
HoldAckLine == <<"Sure, I can hold.">>
FirstLine == <<"Hi, I'm calling to book an appointment. Do you have availability?">>
ThanksLine == <<"Perfect, thank you very much. Have a great day.">>
RetryLine == <<"No problem. Could you share another available time?">>
AskDocsLine == <<"Thanks! To confirm, walk-in is okay. Anything to bring?">>
ClarifyLine == <<"I didn't catch that. Could you share an available day and time?">>
AiReplyLine == <<"(generated reply)">>
ConfirmLine(cleanTime) == <<"Great, I have you down for">> \o cleanTime \o <<"Can you confirm?">>

CapBody == <<"Clinic line busy/long. Reply RETRY, WAIT 5 / WAIT 15, or CANCEL.">>
HoldBody == <<"Clinic kept us on hold too long. Reply NOW/RETRY, or WAIT 5 / WAIT 15 / CANCEL.">>
EndedBody == <<"The clinic ended the call before we could confirm. Reply RETRY, or WAIT 5 / WAIT 15 / CANCEL.">>
FailedBody(callStatus) == <<"Call didn't go through", callStatus, "Reply RETRY, or WAIT 5 / WAIT 15 / CANCEL.">>
ConfirmedBody(time, clinicName) == <<"Confirmed:">> \o time \o <<"at", clinicName>>
RetryingBody(clinicName) == <<"Retrying your booking with", clinicName, "now.">>
RetryFailedBody == <<"Couldn't retry the call just now. Reply RETRY to try again.">>

\* ------------------------------------------------------------- the state
VARIABLES
  now,                \* Date.now()
  sessionsVoice,      \* CallSid -> voice session
  lastCallByPatient,  \* From -> last call details
  pendingRetries,     \* From -> timer id
  timers,             \* the timers setTimeout created, by id
  inflight,           \* handlers suspended at an await
  capacity,           \* calls the telephony provider will still accept
  resp,               \* what the running handler answered and sent
  smsSessions         \* From -> intake session of the chat endpoints

vars == << now, sessionsVoice, lastCallByPatient, pendingRetries, timers, inflight,
           capacity, resp, smsSessions >>

\* Map.prototype.set / delete / has
MapSet(m, k, v) == [x \in DOMAIN m \cup {k} |-> IF x = k THEN v ELSE m[x]]
MapDelete(m, k) == [x \in DOMAIN m \ {k} |-> m[x]]
MapHas(m, k) == k \in DOMAIN m

\* one message handed to client.messages.create; delivered = it did not throw
Sms(to, body, delivered) == [to |-> to, body |-> body, delivered |-> delivered]

\* no session: what sessionsVoice.get answers for a CallSid it does not hold
NoSession ==
  [userRequest |-> [clinicName |-> "", callback |-> NoCallback, clinicPhone |-> ""],
   transcript |-> << >>, status |-> "", confirmed |-> NoConfirmed,
   startedAt |-> NoTime, onHoldSince |-> NoTime]

\* the record of what a handler did: its inputs, the session as it found it,
\* the line it spoke, the instruction that follows, the messages it handed to
\* client.messages.create and what it returned
\* (key: the From of a text or the patient of a timer; timer: the timer's id;
\* at: Date.now() when a session handler began)
Resp(handler, sid, speech, say, next, sms, ret) ==
  [handler |-> handler, sid |-> sid, key |-> "", timer |-> 0, speech |-> speech,
   before |-> NoSession, at |-> NoTime, say |-> say, next |-> next, sms |-> sms,
   ret |-> ret]

RespOn(handler, sid, speech, before, say, next, sms, ret) ==
  [Resp(handler, sid, speech, say, next, sms, ret) EXCEPT !.before = before, !.at = now]

RespFor(key, timer, r) == [r EXCEPT !.key = key, !.timer = timer]

\* no handler is running: the event loop is free to take the next event
NoResp == Resp("idle", 0, <<>>, <<>>, "none", <<>>, "")
Idle == resp = NoResp

\* the process after start-up: every store is empty
Started ==
  /\ now = TickMs
  /\ sessionsVoice = << >>
  /\ lastCallByPatient = [p \in {} |-> NoDetails]
  /\ pendingRetries = [p \in {} |-> 0]
  /\ timers = << >>
  /\ inflight = {}
  /\ resp = NoResp
  /\ smsSessions = << >>

Init == Started /\ capacity = MaxCalls

\* the handler has returned and its response has gone out
Sent ==
  /\ ~Idle
  /\ resp' = NoResp
  /\ UNCHANGED << smsSessions, now, sessionsVoice, lastCallByPatient, pendingRetries, timers, inflight,
                  capacity >>

\* time passes.  The clock is followed while some call is within its cap: once
\* every call is past it, no comparison a handler makes can change any more
Tick ==
  /\ Idle
  /\ \E sid \in DOMAIN sessionsVoice : now - sessionsVoice[sid].startedAt <= MAX_CALL_MS
  /\ now' = now + TickMs
  /\ UNCHANGED << smsSessions, sessionsVoice, lastCallByPatient, pendingRetries, timers, inflight,
                  capacity, resp >>

\* ------------------------------------------------------- retry scheduler
\* clearTimeout: an armed timer never runs its callback; a fired one is left alone
ClearTimeout(tm, id) ==
  [tm EXCEPT ![id].state = IF @ = "armed" THEN "cleared" ELSE @]

\* a scheduleRetry that tabled the new timer without clearing the existing one
ScheduleRetryNoClear(pr, tm, patientNumber, details, delayMs) ==
  [pr |-> MapSet(pr, patientNumber, Len(tm) + 1),
   tm |-> Append(tm, [patient |-> patientNumber, details |-> details,
                      delayMs |-> delayMs, state |-> "armed"])]

\* scheduleRetry(patientNumber, details, delayMs): the table and timers after it
ScheduleRetry(pr, tm, patientNumber, details, delayMs) ==
  LET cleared == IF MapHas(pr, patientNumber) THEN ClearTimeout(tm, pr[patientNumber]) ELSE tm
  IN  [pr |-> MapSet(pr, patientNumber, Len(cleared) + 1),
       tm |-> Append(cleared, [patient |-> patientNumber, details |-> details,
                               delayMs |-> delayMs, state |-> "armed"])]

\* a cancelRetry that deleted the table entry without clearTimeout
CancelRetryKeepTimer(pr, tm, patientNumber) ==
  IF MapHas(pr, patientNumber)
  THEN [pr |-> MapDelete(pr, patientNumber), tm |-> tm, ret |-> TRUE]
  ELSE [pr |-> pr, tm |-> tm, ret |-> FALSE]

\* cancelRetry(patientNumber): the table and timers after it, and what it returns
CancelRetry(pr, tm, patientNumber) ==
  IF MapHas(pr, patientNumber)
  THEN [pr |-> MapDelete(pr, patientNumber),
        tm |-> ClearTimeout(tm, pr[patientNumber]), ret |-> TRUE]
  ELSE [pr |-> pr, tm |-> tm, ret |-> FALSE]

\* ------------------------------------------------------ startClinicCall
\* the session startClinicCall stores once client.calls.create has resolved
NewSession(details, at) ==
  [userRequest |-> [clinicName |-> details.clinicName, callback |-> details.callback,
                    clinicPhone |-> details.to],
   transcript |-> << >>, status |-> "in_progress", confirmed |-> NoConfirmed,
   startedAt |-> at, onHoldSince |-> NoTime]

\* a handler suspended at an await
\* (ref: the CallSid of a /gather, the timer id of a retry; at: when it began)
OpOn(kind, origin, key, details, ref, speech, before) ==
  [kind |-> kind, origin |-> origin, key |-> key, details |-> details,
   ref |-> ref, speech |-> speech, before |-> before, at |-> now]

Op(kind, origin, key, details, ref, speech) ==
  OpOn(kind, origin, key, details, ref, speech, NoSession)

Placing == { op \in inflight : op.kind = "place" }

\* one more placement can be followed
CanPlace == Cardinality(Placing) < MaxCalls

\* startClinicCall after the await: the session and the last-call record
Placed(sv, lc, details) ==
  [sv |-> Append(sv, NewSession(details, now)),
   lc |-> IF details.callback # NoCallback
          THEN MapSet(lc, details.callback, details) ELSE lc]

Notifying == { op \in inflight : op.kind = "holdNotify" }

\* POST /call: startClinicCall up to its await on client.calls.create
CallEndpoint(req) ==
  /\ Idle
  /\ IF req.to = ""
     THEN /\ resp' = Resp("call", 0, <<>>, <<>>, "none", <<>>, "error")
          /\ UNCHANGED inflight
     ELSE /\ CanPlace
          /\ Op("place", "call", NoCallback, req, 0, <<>>) \notin inflight
          /\ inflight' = inflight \cup { Op("place", "call", NoCallback, req, 0, <<>>) }
          /\ resp' = Resp("call.await", 0, <<>>, <<>>, "none", <<>>, "")
  /\ UNCHANGED << smsSessions, now, sessionsVoice, lastCallByPatient, pendingRetries, timers, capacity >>

\* a timer callback whose catch block sent nothing
RetryNoticesSilent(details, placed, sendOk, sendOk2) ==
  IF placed THEN << Sms(details.callback, RetryingBody(details.clinicName), sendOk) >>
            ELSE << >>

\* the notices of the timer callback of scheduleRetry, after startClinicCall
RetryNotices(details, placed, sendOk, sendOk2) ==
  IF placed /\ sendOk
  THEN << Sms(details.callback, RetryingBody(details.clinicName), TRUE) >>
  ELSE IF placed
  THEN << Sms(details.callback, RetryingBody(details.clinicName), FALSE),
          Sms(details.callback, RetryFailedBody, sendOk2) >>
  ELSE << Sms(details.callback, RetryFailedBody, sendOk2) >>

\* client.calls.create settles: startClinicCall resumes, then its caller
PlaceDone(op, ok, sendOk, sendOk2) ==
  /\ Idle
  /\ op \in Placing
  /\ ok => capacity > 0
  /\ capacity' = IF ok THEN capacity - 1 ELSE capacity
  /\ inflight' = inflight \ {op}
  /\ LET p == Placed(sessionsVoice, lastCallByPatient, op.details)
         sid == IF ok THEN Len(sessionsVoice) + 1 ELSE 0
     IN  /\ sessionsVoice' = IF ok THEN p.sv ELSE sessionsVoice
         /\ lastCallByPatient' = IF ok THEN p.lc ELSE lastCallByPatient
         /\ resp' =
              CASE op.origin = "call" ->
                     Resp("call", sid, <<>>, <<>>, "none", <<>>, IF ok THEN "ok" ELSE "error")
                [] op.origin = "sms" ->
                     RespFor(op.key, 0,
                       Resp("sms", sid, op.speech,
                            IF ok THEN <<"Calling again now.">>
                                  ELSE <<"Couldn't place the call just now.">>,
                            "none", <<>>, ""))
                [] OTHER ->
                     RespFor(op.key, op.ref,
                       Resp("retryTimer", sid, <<>>, <<>>, "none",
                            RetryNotices(op.details, ok, sendOk, sendOk2),
                            IF ok THEN "ok" ELSE "error"))
  /\ UNCHANGED << smsSessions, now, pendingRetries, timers >>

\* a timer callback that left its table entry in place
FireTableKept(pr, patientNumber) == pr

\* pendingRetries.delete(patientNumber), the first statement of the timer callback
FireTable(pr, patientNumber) == MapDelete(pr, patientNumber)

\* a timer of scheduleRetry expires: its callback up to the await in startClinicCall
TimerFire(id, sendOk2) ==
  /\ Idle
  /\ id \in DOMAIN timers
  /\ timers[id].state = "armed"
  /\ timers' = [timers EXCEPT ![id].state = "fired"]
  /\ pendingRetries' = FireTable(pendingRetries, timers[id].patient)
  /\ IF timers[id].details.to = ""
     THEN /\ resp' = RespFor(timers[id].patient, id,
                        Resp("retryTimer", 0, <<>>, <<>>, "none",
                             RetryNotices(timers[id].details, FALSE, FALSE, sendOk2),
                             "error"))
          /\ UNCHANGED inflight
     ELSE /\ CanPlace
          /\ inflight' = inflight \cup
               { Op("place", "retry", timers[id].patient, timers[id].details, id, <<>>) }
          /\ resp' = RespFor(timers[id].patient, id,
                        Resp("retryTimer.await", 0, <<>>, <<>>, "none", <<>>, ""))
  /\ UNCHANGED << smsSessions, now, sessionsVoice, lastCallByPatient, capacity >>

\* POST /sms
SmsWebhook(from, body) ==
  LET lower == ToLower(body)
      c == CancelRetry(pendingRetries, timers, from)
      ret == IF c.ret THEN "true" ELSE "false"
  IN
  /\ Idle
  /\ IF Matches(lower, StopRe)
     THEN /\ pendingRetries' = c.pr
          /\ timers' = c.tm
          /\ resp' = RespFor(from, 0, Resp("sms", 0, body, <<"You're opted out.">>, "none", <<>>, ret))
          /\ UNCHANGED inflight
     ELSE IF Matches(lower, StartRe)
     THEN /\ resp' = RespFor(from, 0, Resp("sms", 0, body, <<"You're opted in.">>, "none", <<>>, ""))
          /\ UNCHANGED << pendingRetries, timers, inflight >>
     ELSE IF Matches(lower, HelpRe)
     THEN /\ resp' = RespFor(from, 0, Resp("sms", 0, body, <<"Reply STOP to opt out.">>, "none", <<>>, ""))
          /\ UNCHANGED << pendingRetries, timers, inflight >>
     ELSE IF Matches(lower, RetryRe)
     THEN IF ~MapHas(lastCallByPatient, from) \/ lastCallByPatient[from].to = ""
          THEN /\ resp' = RespFor(from, 0, Resp("sms", 0, body, <<"I don't have a clinic on file.">>,
                               "none", <<>>, ""))
               /\ UNCHANGED << pendingRetries, timers, inflight >>
          ELSE /\ CanPlace
               /\ Op("place", "sms", from, lastCallByPatient[from], 0, body) \notin inflight
               /\ pendingRetries' = c.pr
               /\ timers' = c.tm
               /\ inflight' = inflight \cup
                    { Op("place", "sms", from, lastCallByPatient[from], 0, body) }
               /\ resp' = RespFor(from, 0, Resp("sms.await", 0, body, <<>>, "none", <<>>, ret))
     ELSE /\ resp' = RespFor(from, 0, Resp("sms", 0, body, <<"Please use our website chat.">>, "none", <<>>, ""))
          /\ UNCHANGED << pendingRetries, timers, inflight >>
  /\ UNCHANGED << smsSessions, now, sessionsVoice, lastCallByPatient, capacity >>

\* the CallSid values a webhook may carry: those of the sessions and one the
\* store does not know
WebhookSids == 1..(Len(sessionsVoice) + 1)

RECURSIVE Entries(_, _)
\* transcript entries held by the first n sessions
Entries(sv, n) == IF n = 0 THEN 0 ELSE Len(sv[n].transcript) + Entries(sv, n - 1)

\* room is left for the entries of one more turn
CanAppendIn(room, k) == Entries(sessionsVoice, Len(sessionsVoice)) + k <= room

CanAppend(k) == CanAppendIn(MaxTranscript, k)

\* the provider asks for the next instruction of a call only once the previous
\* request of that call has been answered
Answered(sid) == \A op \in Notifying : op.ref # sid

\* a /voice that kept one transcript for all calls
VoiceShared(sid) ==
  /\ Idle
  /\ IF sid \notin DOMAIN sessionsVoice
     THEN /\ resp' = Resp("voice", sid, <<>>, ContextLostLine, "hangup", <<>>, "")
          /\ UNCHANGED sessionsVoice
     ELSE /\ Answered(sid)
          /\ CanAppend(Len(sessionsVoice))
          /\ sessionsVoice' = [c \in DOMAIN sessionsVoice |->
                                 [sessionsVoice[c] EXCEPT !.transcript =
                                    Append(@, [from |-> "ai", text |-> FirstLine])]]
          /\ resp' = RespOn("voice", sid, <<>>, sessionsVoice[sid], FirstLine, "gather",
                            <<>>, "")
  /\ UNCHANGED << smsSessions, now, lastCallByPatient, pendingRetries, timers, inflight, capacity >>

\* POST /voice
Voice(sid) ==
  /\ Idle
  /\ IF sid \notin DOMAIN sessionsVoice
     THEN /\ resp' = Resp("voice", sid, <<>>, ContextLostLine, "hangup", <<>>, "")
          /\ UNCHANGED sessionsVoice
     ELSE /\ Answered(sid)
          /\ CanAppend(1)
          /\ sessionsVoice' = [sessionsVoice EXCEPT ![sid].transcript =
                                 Append(@, [from |-> "ai", text |-> FirstLine])]
          /\ resp' = RespOn("voice", sid, <<>>, sessionsVoice[sid], FirstLine, "gather",
                            <<>>, "")
  /\ UNCHANGED << smsSessions, now, lastCallByPatient, pendingRetries, timers, inflight, capacity >>

\* a handler that let the rejection of client.messages.create escape
Thrown(ret, sendOk) == IF sendOk THEN ret ELSE "error"

\* try{ await client.messages.create(...) }catch{}: what the handler returns
Swallowed(ret, sendOk) == ret

\* a /status that sent the ended notice for every completed call
StatusNoticesAlways(session, callStatus, sendOk) ==
  LET cb == session.userRequest.callback
  IN  IF callStatus = "completed" /\ cb # NoCallback
      THEN << Sms(cb, EndedBody, sendOk) >>
      ELSE IF FailedRe(callStatus) /\ cb # NoCallback
      THEN << Sms(cb, FailedBody(callStatus), sendOk) >>
      ELSE << >>

\* the messages of /status
StatusNotices(session, callStatus, sendOk) ==
  LET cb == session.userRequest.callback
      ended == IF callStatus = "completed" /\ session.status # "confirmed" /\ cb # NoCallback
               THEN << Sms(cb, EndedBody, sendOk) >> ELSE << >>
      failed == IF FailedRe(callStatus) /\ cb # NoCallback
                THEN << Sms(cb, FailedBody(callStatus), sendOk) >> ELSE << >>
  IN  ended \o failed

\* POST /status
Status(sid, callStatus) ==
  /\ Idle
  /\ IF sid \notin DOMAIN sessionsVoice
     THEN resp' = Resp("status", sid, <<>>, <<>>, "none", <<>>, "200")
     ELSE \E sendOk \in BOOLEAN :
            /\ StatusNotices(sessionsVoice[sid], callStatus, TRUE) = << >> => sendOk
            /\ resp' = RespOn("status", sid, <<callStatus>>, sessionsVoice[sid], <<>>, "none",
                              StatusNotices(sessionsVoice[sid], callStatus, sendOk),
                              Swallowed("200", sendOk))
  /\ UNCHANGED << smsSessions, now, sessionsVoice, lastCallByPatient, pendingRetries, timers, inflight,
                  capacity >>

\* a cap measured from onHoldSince instead of startedAt
CapExceededFromHold(session, at) ==
  at - (IF session.onHoldSince # NoTime THEN session.onHoldSince ELSE at) > MAX_CALL_MS

\* Date.now()-(session.startedAt||Date.now()) > MAX_CALL_MS
CapExceeded(session, at) ==
  at - (IF session.startedAt # NoTime THEN session.startedAt ELSE at) > MAX_CALL_MS

\* a handler that tested the time and yes intents before the hold phrase
GatherBranchIntentFirst(lower, proposed) ==
  IF Intent(lower) = "time" THEN "time"
  ELSE IF Intent(lower) = "yes" /\ proposed THEN "yes"
  ELSE IF IsHold(lower) THEN "hold"
  ELSE IF Intent(lower) = "no" THEN "no"
  ELSE IF IsWalkIn(lower) THEN "walkin"
  ELSE "fallback"

\* a handler that answered an utterance matching nothing as a refusal
GatherBranchNoDefault(lower, proposed) ==
  IF IsHold(lower) THEN "hold"
  ELSE IF Intent(lower) = "time" THEN "time"
  ELSE IF Intent(lower) = "yes" /\ proposed THEN "yes"
  ELSE IF IsWalkIn(lower) THEN "walkin"
  ELSE "no"

\* a handler that took an affirmative as a confirmation with no time proposed
GatherBranchYesUnproposed(lower, proposed) ==
  IF IsHold(lower) THEN "hold"
  ELSE IF Intent(lower) = "time" THEN "time"
  ELSE IF Intent(lower) = "yes" THEN "yes"
  ELSE IF Intent(lower) = "no" THEN "no"
  ELSE IF IsWalkIn(lower) THEN "walkin"
  ELSE "fallback"

\* the branch of /gather that answers a turn within the call cap, in the order
\* the handler tests them; proposed = session.confirmed?.time is truthy
GatherBranch(lower, proposed) ==
  IF IsHold(lower) THEN "hold"
  ELSE IF Intent(lower) = "time" THEN "time"
  ELSE IF Intent(lower) = "yes" /\ proposed THEN "yes"
  ELSE IF Intent(lower) = "no" THEN "no"
  ELSE IF IsWalkIn(lower) THEN "walkin"
  ELSE "fallback"

\* Date.toLocaleString('en-US', ...) of the date chrono parsed from the speech
FormatDate(speech) == <<"en-US date of">> \o ToLower(speech)

\* a time branch that kept nothing of an utterance chrono could not parse
CleanTimeReject(speech, parsed) == IF parsed THEN FormatDate(speech) ELSE << >>

\* parsedDate ? parsedDate.toLocaleString(...) : speech
CleanTime(speech, parsed) == IF parsed THEN FormatDate(speech) ELSE speech

\* the details the hold timeout hands to scheduleRetry
DetailsOf(session) ==
  [to |-> session.userRequest.clinicPhone, clinicName |-> session.userRequest.clinicName,
   callback |-> session.userRequest.callback]

\* a push of the utterance that did not test it for emptiness
RxAlways(speech) == << [from |-> "rx", text |-> speech] >>

\* if(speech) session.transcript.push({ from:'rx', text:speech })
Rx(speech) == IF speech # <<>> THEN << [from |-> "rx", text |-> speech] >> ELSE << >>
Ai(line) == << [from |-> "ai", text |-> line] >>

\* a /gather without the guard on a missing session, which throws on session.startedAt
GatherLostThrows(sid) ==
  /\ sid \notin DOMAIN sessionsVoice
  /\ resp' = Resp("gather", sid, <<>>, <<>>, "none", <<>>, "error")
  /\ UNCHANGED << sessionsVoice, inflight >>

\* /gather for a CallSid the store does not know
GatherLost(sid) ==
  /\ sid \notin DOMAIN sessionsVoice
  /\ resp' = Resp("gather", sid, <<>>, ContextLostLine, "hangup", <<>>, "")
  /\ UNCHANGED << sessionsVoice, inflight >>

\* /gather past the total call cap
GatherCapped(sid, speech) ==
  /\ sid \in DOMAIN sessionsVoice
  /\ CapExceeded(sessionsVoice[sid], now)
  /\ Answered(sid)
  /\ LET cb == sessionsVoice[sid].userRequest.callback
     IN  \E sendOk \in BOOLEAN :
           /\ cb = NoCallback => sendOk
           /\ resp' = RespOn("gather", sid, speech, sessionsVoice[sid], WrapUpLine, "hangup",
                             IF cb # NoCallback THEN << Sms(cb, CapBody, sendOk) >>
                                                ELSE << >>, Swallowed("", sendOk))
  /\ UNCHANGED << sessionsVoice, inflight >>

\* a hold block that restarted the hold clock on every hold turn
HoldSinceRestart(session, at) == at

\* if(!session.onHoldSince) session.onHoldSince=Date.now()
HoldSince(session, at) == IF session.onHoldSince = NoTime THEN at ELSE session.onHoldSince

\* /gather within the cap, on a hold phrase
GatherHold(sid, speech) ==
  LET session == sessionsVoice[sid]
      cb == session.userRequest.callback
      since == HoldSince(session, now)
      held == [sessionsVoice EXCEPT ![sid].transcript = session.transcript \o Rx(speech),
                                    ![sid].onHoldSince = since]
      await == OpOn("holdNotify", "gather", cb, DetailsOf(session), sid, speech, session)
  IN
  /\ sessionsVoice' = held
  /\ IF now - since > MAX_HOLD_MS
     THEN IF cb # NoCallback
          THEN \* suspended at the await on client.messages.create
               /\ await \notin inflight
               /\ inflight' = inflight \cup { await }
               /\ resp' = RespOn("gather.await", sid, speech, session, <<>>, "none", <<>>, "")
          ELSE /\ resp' = RespOn("gather", sid, speech, session, FollowUpLine, "hangup",
                                 <<>>, "")
               /\ UNCHANGED inflight
     ELSE /\ resp' = RespOn("gather", sid, speech, session, HoldAckLine,
                            "pause:15,gather:5", <<>>, "")
          /\ UNCHANGED inflight

\* a fallback whose failure left the turn without a line
FallbackReplyThrows(aiOk) == IF aiOk THEN AiReplyLine ELSE << >>

\* try{ reply=await nextAIUtterance(callSid); }catch{ reply="I didn't catch that..." }
FallbackReply(aiOk) == IF aiOk THEN AiReplyLine ELSE ClarifyLine

\* a handler that left the hold clock running through a turn without a hold phrase
HoldKept(session) == session.onHoldSince

\* else if(session.onHoldSince){ session.onHoldSince=null; }
HoldCleared(session) == NoTime

\* a time branch that kept the first time proposed in the call
SetConfirmedOnce(session, cleanTime) ==
  IF session.confirmed # NoConfirmed THEN session.confirmed ELSE cleanTime

\* session.confirmed={ time:cleanTime }: the new value of the field
SetConfirmed(session, cleanTime) == cleanTime

\* /gather within the cap, with no hold phrase: onHoldSince is cleared first
GatherIntent(sid, speech, branch) ==
  LET session == sessionsVoice[sid]
      cb == session.userRequest.callback
      heard == session.transcript \o Rx(speech)
  IN
  /\ UNCHANGED inflight
  /\ CASE branch = "time" ->
            \E parsed \in BOOLEAN :
              LET cleanTime == CleanTime(speech, parsed)
              IN  /\ sessionsVoice' = [sessionsVoice EXCEPT
                       ![sid].transcript = heard \o Ai(ConfirmLine(cleanTime)),
                       ![sid].onHoldSince = HoldCleared(session),
                       ![sid].confirmed = SetConfirmed(session, cleanTime)]
                  /\ resp' = RespOn("gather", sid, speech, session, ConfirmLine(cleanTime),
                                    "gather:5", <<>>, "")
       [] branch = "yes" ->
            \E sendOk \in BOOLEAN :
              /\ cb = NoCallback => sendOk
              /\ sessionsVoice' = [sessionsVoice EXCEPT
                   ![sid].transcript = heard \o Ai(ThanksLine),
                   ![sid].onHoldSince = HoldCleared(session),
                   ![sid].status = "confirmed"]
              /\ resp' = RespOn("gather", sid, speech, session, ThanksLine, "hangup",
                                IF cb # NoCallback
                                THEN << Sms(cb, ConfirmedBody(session.confirmed,
                                                              session.userRequest.clinicName),
                                            sendOk) >>
                                ELSE << >>, Swallowed("", sendOk))
       [] branch = "no" ->
            /\ sessionsVoice' = [sessionsVoice EXCEPT
                 ![sid].transcript = heard \o Ai(RetryLine),
                 ![sid].onHoldSince = HoldCleared(session)]
            /\ resp' = RespOn("gather", sid, speech, session, RetryLine, "gather:5", <<>>, "")
       [] branch = "walkin" ->
            /\ sessionsVoice' = [sessionsVoice EXCEPT
                 ![sid].transcript = heard \o Ai(AskDocsLine),
                 ![sid].onHoldSince = HoldCleared(session)]
            /\ resp' = RespOn("gather", sid, speech, session, AskDocsLine, "gather:5",
                              <<>>, "")
       [] OTHER ->
            \* nextAIUtterance returned, or threw
            \E aiOk \in BOOLEAN :
              LET reply == FallbackReply(aiOk)
              IN  /\ sessionsVoice' = [sessionsVoice EXCEPT
                       ![sid].transcript = heard \o Ai(reply),
                       ![sid].onHoldSince = HoldCleared(session)]
                  /\ resp' = RespOn("gather", sid, speech, session, reply, "gather:5",
                                    <<>>, "")

\* POST /gather, followed while the transcripts hold at most room entries
GatherIn(room, sid, speech) ==
  /\ Idle
  /\ \/ GatherLost(sid)
     \/ GatherCapped(sid, speech)
     \/ /\ sid \in DOMAIN sessionsVoice
        /\ ~CapExceeded(sessionsVoice[sid], now)
        /\ Answered(sid)
        /\ CanAppendIn(room, 2)
        /\ LET branch == GatherBranch(ToLower(speech),
                                      sessionsVoice[sid].confirmed # NoConfirmed)
           IN  IF branch = "hold" THEN GatherHold(sid, speech)
                                  ELSE GatherIntent(sid, speech, branch)
  /\ UNCHANGED << smsSessions, now, lastCallByPatient, pendingRetries, timers, capacity >>

\* POST /gather
Gather(sid, speech) == GatherIn(MaxTranscript, sid, speech)

\* /gather resumes after the hold-timeout message: scheduleRetry runs only if
\* client.messages.create did not throw; then the response is sent
HoldNotifyDone(op, sendOk) ==
  /\ Idle
  /\ op \in Notifying
  /\ inflight' = inflight \ {op}
  /\ LET sched == ScheduleRetry(pendingRetries, timers, op.key, op.details, DEFAULT_RETRY_MS)
     IN  /\ pendingRetries' = IF sendOk THEN sched.pr ELSE pendingRetries
         /\ timers' = IF sendOk THEN sched.tm ELSE timers
  /\ resp' = [RespOn("gather", op.ref, op.speech, op.before, FollowUpLine, "hangup",
                     << Sms(op.key, HoldBody, sendOk) >>, Swallowed("", sendOk)) EXCEPT !.at = op.at]
  /\ UNCHANGED << smsSessions, now, sessionsVoice, lastCallByPatient, capacity >>

Next ==
  \/ Sent
  \/ Tick
  \/ \E req \in Requests : CallEndpoint(req)
  \/ \E op \in inflight, ok \in BOOLEAN, sendOk \in BOOLEAN, sendOk2 \in BOOLEAN :
       PlaceDone(op, ok, sendOk, sendOk2)
  \/ \E id \in DOMAIN timers, sendOk2 \in BOOLEAN : TimerFire(id, sendOk2)
  \/ \E from \in Patients, body \in SmsBodies : SmsWebhook(from, body)
  \/ \E sid \in WebhookSids : Voice(sid)
  \/ \E sid \in WebhookSids, callStatus \in CallStatuses : Status(sid, callStatus)
  \/ \E sid \in WebhookSids, speech \in Utterances : Gather(sid, speech)
  \/ \E op \in inflight, sendOk \in BOOLEAN : HoldNotifyDone(op, sendOk)

\* the whole service, one call accepted by the provider
Spec == Init /\ [][Next]_vars

\* the utterances that only put the call on hold
HoldUtterances == { u \in Utterances : IsHold(ToLower(u)) /\ Intent(ToLower(u)) = "other" }

InitRetry == Started /\ capacity = MaxCalls + 1

NextRetry ==
  \/ Sent
  \/ Tick
  \/ \E req \in Requests : CallEndpoint(req)
  \/ \E op \in inflight, ok \in BOOLEAN, sendOk \in BOOLEAN, sendOk2 \in BOOLEAN :
       PlaceDone(op, ok, sendOk, sendOk2)
  \/ \E id \in DOMAIN timers, sendOk2 \in BOOLEAN : TimerFire(id, sendOk2)
  \/ \E from \in Patients, body \in SmsBodies : SmsWebhook(from, body)
  \/ \E sid \in WebhookSids : Voice(sid)
  \/ \E sid \in WebhookSids, callStatus \in CallStatuses : Status(sid, callStatus)
  \/ \E sid \in WebhookSids, speech \in HoldUtterances : Gather(sid, speech)
  \/ \E op \in inflight, sendOk \in BOOLEAN : HoldNotifyDone(op, sendOk)

\* the whole service with one more call accepted, the receptionist only ever
\* putting the call on hold
SpecRetry == InitRetry /\ [][NextRetry]_vars

\* the utterances of a receptionist who only proposes times and agrees
ConfirmUtterances == { <<"Tuesday", "at", "2pm">>, <<"tomorrow", "morning">>, <<"Yes">> }

NextConfirm ==
  \/ Sent
  \/ Tick
  \/ \E req \in Requests : CallEndpoint(req)
  \/ \E op \in inflight, ok \in BOOLEAN, sendOk \in BOOLEAN, sendOk2 \in BOOLEAN :
       PlaceDone(op, ok, sendOk, sendOk2)
  \/ \E sid \in WebhookSids : Voice(sid)
  \/ \E sid \in WebhookSids, callStatus \in CallStatuses : Status(sid, callStatus)
  \/ \E sid \in WebhookSids, speech \in ConfirmUtterances : GatherIn(MaxDialogue, sid, speech)

\* one call whose dialogue is followed for three turns of proposals and agreement
SpecConfirm == Init /\ [][NextConfirm]_vars

\* the utterances of a receptionist who proposes, agrees or says something else
PairUtterances == { <<"Tuesday", "at", "2pm">>, <<"Yes">>, <<"we're", "closed">> }

NextPair ==
  \/ Sent
  \/ Tick
  \/ \E req \in Requests : CallEndpoint(req)
  \/ \E op \in inflight, ok \in BOOLEAN, sendOk \in BOOLEAN, sendOk2 \in BOOLEAN :
       PlaceDone(op, ok, sendOk, sendOk2)
  \/ \E sid \in WebhookSids : Voice(sid)
  \/ \E sid \in WebhookSids, callStatus \in CallStatuses : Status(sid, callStatus)
  \/ \E sid \in WebhookSids, speech \in PairUtterances : Gather(sid, speech)

\* two calls accepted, their dialogues interleaved
SpecPair == InitRetry /\ [][NextPair]_vars

\* the utterances of a receptionist who proposes, declines, agrees and mentions
\* walk-in together with a day or an affirmative
MixedUtterances ==
  { <<"Tuesday", "at", "2pm">>,
    <<"No">>,
    <<"Yes">>,
    <<"walk", "in", "tomorrow">>,
    <<"okay", "walk", "in">> }

NextMixed ==
  \/ Sent
  \/ Tick
  \/ \E req \in Requests : CallEndpoint(req)
  \/ \E op \in inflight, ok \in BOOLEAN, sendOk \in BOOLEAN, sendOk2 \in BOOLEAN :
       PlaceDone(op, ok, sendOk, sendOk2)
  \/ \E sid \in WebhookSids, speech \in MixedUtterances : GatherIn(MaxDialogue, sid, speech)

\* one call whose dialogue is followed for three turns of mixed utterances
SpecMixed == Init /\ [][NextMixed]_vars

\* The await in startClinicCall seen from both ends.  The provider creates the
\* call, and from then on sends its webhooks, when it has processed the request
\* of client.calls.create; the handler resumes, and stores the session, when
\* the response has come back and the event loop has taken it.
Accepted == { op \in inflight : op.kind = "accepted" }

\* the provider creates the call of a placement and gives it its CallSid (ref)
ProviderAccepts(op) ==
  /\ op \in Placing
  /\ Accepted = {}
  /\ capacity > 0
  /\ capacity' = capacity - 1
  /\ inflight' = (inflight \ {op}) \cup
                   { [op EXCEPT !.kind = "accepted", !.ref = Len(sessionsVoice) + 1] }
  /\ UNCHANGED << smsSessions, now, sessionsVoice, lastCallByPatient, pendingRetries, timers, resp >>

\* the response of client.calls.create is taken up: sessionsVoice.set(call.sid, ...)
\* and lastCallByPatient.set, then POST /call answers
PlaceResumed(op) ==
  /\ Idle
  /\ op \in Accepted
  /\ inflight' = inflight \ {op}
  /\ sessionsVoice' = Placed(sessionsVoice, lastCallByPatient, op.details).sv
  /\ lastCallByPatient' = Placed(sessionsVoice, lastCallByPatient, op.details).lc
  /\ resp' = Resp("call", op.ref, <<>>, <<>>, "none", <<>>, "ok")
  /\ UNCHANGED << smsSessions, now, pendingRetries, timers, capacity >>

NextRace ==
  \/ Sent
  \/ Tick
  \/ \E req \in Requests : CallEndpoint(req)
  \/ \E op \in inflight : ProviderAccepts(op)
  \/ \E op \in inflight : PlaceResumed(op)
  \/ \E op \in inflight : PlaceDone(op, FALSE, TRUE, TRUE)
  \/ \E sid \in WebhookSids : Voice(sid)
  \/ \E sid \in WebhookSids, callStatus \in CallStatuses : Status(sid, callStatus)
  \/ \E sid \in WebhookSids, speech \in PairUtterances : Gather(sid, speech)

\* calls placed through POST /call, the provider's side of each placement
\* followed, with the webhooks of the calls
SpecRace == InitRetry /\ [][NextRace]_vars

\* ------------------------------------------------ src/backend/server.js
\* The backend server keeps its own dialogue machine: the same session store
\* (there named sessions) and call placement, a /gather with its own patterns
\* and a walk-in outcome, no retry scheduler and a /status that only
\* acknowledges.  The session field turns is written once (0) and never read;
\* it is left out.
BackendYesRe == { <<"yes">>, <<"works">>, <<"okay">>, <<"ok">>, <<"sure">>, <<"confirmed">> }

BackendNoRe == { <<"no">>, <<"unavailable">>, <<"not", "available">>, <<"can't">>, <<"cant">> }

BackendTimeRe == DayRe \cup ClockRe \cup { <<"am">>, <<"pm">>, <<"morning">>,
                                           <<"afternoon">>, <<"evening">> }

BackendWalkInRe == { <<"walk", "in">>, <<"walkin">>, <<"come", "any", "time">>,
                     <<"anytime">>, <<"any", "time">> }

BackendHoldRe == { <<"please", "hold">>, <<"hold", "on">>, <<"one", "moment">>,
                   <<"just", "a", "moment">>, <<"put", "you", "on", "hold">> }

\* the intent quick paths, in the order of the else-if chain
BackendIntent(lower) ==
  IF Matches(lower, BackendYesRe) THEN "yes"
  ELSE IF Matches(lower, BackendNoRe) THEN "no"
  ELSE IF Matches(lower, BackendTimeRe) THEN "time"
  ELSE IF Matches(lower, BackendWalkInRe) THEN "walkin"
  ELSE "other"

BackendUtterances ==
  { <<"Yes">>,
    <<"No">>,
    <<"Tuesday", "at", "2pm">>,
    <<"please", "hold">>,
    <<"walk", "in">>,
    <<"we're", "closed">> }

BackendLostLine == <<"Context lost, ending here.">>
BackendWrapUpLine == <<"I'll follow up by text. Thank you!">>
BackendWalkInLine == <<"Thank you! I've noted that the patient can come anytime.">>
BackendConfirmLine(clean) == <<"Great, I have">> \o clean \o <<"Can you confirm?">>
BackendThanksLine == <<"Perfect, thank you. Have a great day.">>
BackendRetryLine == <<"No problem, do you have another time window?">>
BackendClarifyLine == <<"Could you share a day and time that works?">>
WalkInTime == <<"Walk-in / come anytime - no appointment needed">>
BackendWalkInBody(clinicName) == <<clinicName, "said you can come anytime - no appointment needed.">>

\* ------------------------------------------------ the web chat intake
\* POST /chat/web of the backend server keeps one intake session per From in
\* smsSessions.  The texts are word sequences (already trimmed); the fields
\* lang, patientName, symptoms, zip, insuranceY, useOwnClinic and callback
\* are written and never read by a branch, and are left out.
ChatTexts ==
  { <<"new">>,
    <<"Jane", "Doe">>,
    <<"30309">>,
    <<"y">>,
    <<"nearby">>,
    <<"use", "my", "usual", "clinic">>,
    <<"asap">>,
    <<"10/25/2025">>,
    <<"10:30", "am">>,
    <<"1">>,
    <<"2">>,
    <<"next">>,
    <<"Yes">>,
    <<"CANCEL">>,
    <<"reset">> }

\* the From of a web session: web-<sessionId>
WebSessions == { "web-a" }

\* /^new$/i
NewRe(text) == ToLower(text) = <<"new">>

\* /^use my usual clinic/i
UsualClinicRe(text) ==
  /\ Len(text) >= 4
  /\ SubSeq(ToLower(text), 1, 4) = <<"use", "my", "usual", "clinic">>

\* /^show nearby clinics|nearby/i
NearbyRe(text) == \E i \in DOMAIN text : ToLower(text)[i] = "nearby"

\* zipRe = /^\d{5}$/
isValidZip(text) == text \in { <<"30309">> }

\* ynRe = /^(y|yes|n|no)$/i
ynRe(text) == ToLower(text) \in { <<"y">>, <<"yes">>, <<"n">>, <<"no">> }

\* /\b(asap|as soon as possible|soonest|earliest)\b/i
looksLikeASAP(text) ==
  Matches(ToLower(text), { <<"asap">>, <<"as", "soon", "as", "possible">>, <<"soonest">>,
                           <<"earliest">> })

\* MM/DD/YYYY and HH:MM AM/PM, over the texts of the vocabulary
DateRe(text) == text \in { <<"10/25/2025">> }
TimeRe(text) == ToLower(text) \in { <<"10:30", "am">>, <<"10:30", "pm">> }

\* the timeStr of a matched time: the meridiem in upper case
ToUpperMeridiem(w) == IF w \in { "am", "AM" } THEN "AM" ELSE "PM"
TimeStr(text) == << text[1], ToUpperMeridiem(text[2]) >>

\* /^(\d+)$/ and parseInt of the match
NumRe(text) == text \in { <<"1">>, <<"2">>, <<"3">>, <<"4">>, <<"30309">> }
ParseInt(w) ==
  CASE w = "1" -> 1
    [] w = "2" -> 2
    [] w = "3" -> 3
    [] w = "4" -> 4
    [] OTHER -> 30309

\* /^next\b/i, /^yes\b/i, /^cancel\b/i
ChatNextRe(text) == text # << >> /\ ToLower(text)[1] = "next"
ChatYesRe(text) == text # << >> /\ ToLower(text)[1] = "yes"
ChatCancelRe(text) == text # << >> /\ ToLower(text)[1] = "cancel"

\* /^reset|restart|new$/i
ChatResetRe(text) ==
  /\ text # << >>
  /\ \/ ToLower(text)[1] = "reset"
     \/ \E i \in DOMAIN text : ToLower(text)[i] = "restart"
     \/ ToLower(text)[Len(text)] = "new"

\* what findClinics answers: every clinic it returns has a phone number
Clinic(name, phone, isUrgentCare) ==
  [name |-> name, phone |-> phone, isUrgentCare |-> isUrgentCare]

ClinicLists ==
  { << >>,
    << Clinic("A", "clinicA", FALSE) >>,
    << Clinic("A", "clinicA", FALSE), Clinic("B", "clinicB", FALSE),
       Clinic("C", "clinicC", FALSE), Clinic("D", "clinicD", FALSE) >>,
    << Clinic("U", "clinicU", TRUE) >> }

\* chosenClinic: null
NoClinic == [name |-> "", phone |-> ""]

Chosen(clinic) == [name |-> clinic.name, phone |-> clinic.phone]

\* clinics.slice(0, 3)
TopClinics(clinics) == SubSeq(clinics, 1, IF Len(clinics) < 3 THEN Len(clinics) ELSE 3)

\* the session a From starts with, and the one a reset leaves
NewIntake ==
  [state |-> "start", dateStr |-> << >>, timeStr |-> << >>, windowText |-> << >>,
   clinics |-> << >>, chosenClinic |-> NoClinic]

CallingLine == "Calling the clinic now. I'll confirm here."

\* what one step of the handler leaves: the session, the lines said, and
\* whether it goes on to startClinicCall
Step(s, lines, call) == [s |-> s, lines |-> lines, call |-> call]

\* the quick actions
QuickAction(s, text) ==
  IF s.state = "clinic_pref"
  THEN Step([s EXCEPT !.state = "date"], <<"What date works best? (MM/DD/YYYY). You can also say ASAP.">>, FALSE)
  ELSE Step(s,
            << IF UsualClinicRe(text)
               THEN "Noted. I'll use your usual clinic when we get to that step."
               ELSE "Noted. I'll search for nearby clinics when we get to that step." >>,
            FALSE)

\* the else-if chain from start to time
IntakeChain(s, text) ==
  IF s.state = "start" \/ NewRe(text)
  THEN Step([s EXCEPT !.state = "name"], <<"What is the patient's full name? (First Last)">>, FALSE)
  ELSE IF s.state = "name"
  THEN Step([s EXCEPT !.state = "symptoms"], <<"What is the reason for the visit? (brief)">>, FALSE)
  ELSE IF s.state = "symptoms"
  THEN Step([s EXCEPT !.state = "zip"], <<"What ZIP code should I search near? (5 digits)">>, FALSE)
  ELSE IF s.state = "zip"
  THEN IF ~isValidZip(text)
       THEN Step(s, <<"Please enter a 5-digit ZIP (e.g., 30309).">>, FALSE)
       ELSE Step([s EXCEPT !.state = "ins"], <<"Do you have insurance? (Y/N)">>, FALSE)
  ELSE IF s.state = "ins"
  THEN IF ~ynRe(text)
       THEN Step(s, <<"Please reply Y or N for insurance.">>, FALSE)
       ELSE Step([s EXCEPT !.state = "clinic_pref"], <<"Do you want your usual clinic or search nearby?">>, FALSE)
  ELSE IF s.state = "clinic_pref"
  THEN Step([s EXCEPT !.state = "date"], <<"What date works best? (MM/DD/YYYY). You can also say ASAP.">>, FALSE)
  ELSE IF s.state = "date"
  THEN IF looksLikeASAP(text)
       THEN Step([s EXCEPT !.dateStr = << >>, !.timeStr = << >>,
                           !.windowText = <<"ASAP">>, !.state = "find"], << >>, FALSE)
       ELSE IF ~DateRe(text)
       THEN Step(s, <<"Please use MM/DD/YYYY (e.g., 10/25/2025), or say ASAP.">>, FALSE)
       ELSE Step([s EXCEPT !.dateStr = text, !.state = "time"], <<"Preferred time? (e.g., 10:30 AM). You can also say ASAP.">>, FALSE)
  ELSE IF s.state = "time"
  THEN IF looksLikeASAP(text)
       THEN Step([s EXCEPT !.timeStr = << >>, !.windowText = <<"ASAP">>,
                           !.state = "find"], << >>, FALSE)
       ELSE IF ~TimeRe(text)
       THEN Step(s, <<"Use HH:MM AM/PM (e.g., 10:30 AM), or say ASAP.">>, FALSE)
       ELSE Step([s EXCEPT !.timeStr = TimeStr(text),
                           !.windowText = s.dateStr \o TimeStr(text),
                           !.state = "find"], << >>, FALSE)
  ELSE Step(s, << >>, FALSE)

\* state find: the clinic search and the options shown
FindStep(s, clinics) ==
  IF clinics = << >>
  THEN Step([s EXCEPT !.clinics = clinics, !.state = "zip"], <<"I couldn't find clinics nearby with phone numbers.">>, FALSE)
  ELSE IF clinics[1].isUrgentCare
  THEN Step([s EXCEPT !.clinics = clinics, !.state = "completed"], <<"No appointment needed for urgent care.">>, FALSE)
  ELSE Step([s EXCEPT !.clinics = clinics, !.chosenClinic = Chosen(clinics[1]),
                      !.state = "confirm_choice"], <<"Which option would you like? Reply 1, 2, or 3 to select, or type NEXT.">>, FALSE)

\* state confirm_choice: the selection, NEXT, YES, CANCEL and reset
ChoiceStep(s, text) ==
  IF NumRe(text)
  THEN IF ParseInt(text[1]) >= 1 /\ ParseInt(text[1]) <= Len(TopClinics(s.clinics))
       THEN Step([s EXCEPT !.chosenClinic = Chosen(TopClinics(s.clinics)[ParseInt(text[1])]),
                           !.state = "final_confirm"], <<"Great! You selected the option. Reply YES to call now, or CANCEL.">>, FALSE)
       ELSE Step(s, <<"Please select option 1, 2, or 3.">>, FALSE)
  ELSE IF ChatNextRe(text)
  THEN IF Len(s.clinics) <= 3
       THEN Step(s, <<"No more options. Please select from options 1, 2, or 3, or type RESET.">>, FALSE)
       ELSE Step(s, <<"Here are more options. Reply with the option number to select.">>, FALSE)
  ELSE IF ChatYesRe(text) /\ s.state = "final_confirm"
  THEN IF s.chosenClinic.phone = ""
       THEN Step([s EXCEPT !.state = "confirm_choice"], <<"This clinic does not have a phone number available.">>, FALSE)
       ELSE Step(s, << >>, TRUE)
  ELSE IF ChatCancelRe(text) /\ s.state = "final_confirm"
  THEN Step([s EXCEPT !.state = "confirm_choice"], <<"Cancelled. Please select option 1, 2, or 3 to choose a clinic.">>, FALSE)
  ELSE IF ChatResetRe(text)
  THEN Step(NewIntake, <<"Reset. Type NEW to begin.">>, FALSE)
  ELSE IF s.state = "final_confirm"
  THEN Step(s, <<"Please reply YES to book, CANCEL to choose a different option, or RESET.">>, FALSE)
  ELSE Step(s, <<"Please reply with option number, NEXT for more options, or RESET.">>, FALSE)

\* the handler of /chat/web up to its first await on startClinicCall
ChatWebStep(s, text, clinics) ==
  IF UsualClinicRe(text) \/ NearbyRe(text)
  THEN QuickAction(s, text)
  ELSE LET chain == IntakeChain(s, text)
       IN  IF chain.s.state = "find"
           THEN Step(FindStep(chain.s, clinics).s,
                     chain.lines \o FindStep(chain.s, clinics).lines, FALSE)
           ELSE IF chain.s.state = "confirm_choice"
           THEN Step(ChoiceStep(chain.s, text).s,
                     chain.lines \o ChoiceStep(chain.s, text).lines,
                     ChoiceStep(chain.s, text).call)
           ELSE chain

\* startClinicCall of the backend, up to the await on client.calls.create
BackendStartClinicCall(req) ==
  /\ Idle
  /\ IF req.to = ""
     THEN /\ resp' = Resp("chat", 0, <<>>, <<>>, "none", <<>>, "error")
          /\ UNCHANGED inflight
     ELSE /\ CanPlace
          /\ Op("place", "chat", NoCallback, req, 0, <<>>) \notin inflight
          /\ inflight' = inflight \cup { Op("place", "chat", NoCallback, req, 0, <<>>) }
          /\ resp' = Resp("chat.await", 0, <<>>, <<>>, "none", <<>>, "")
  /\ UNCHANGED << smsSessions, now, sessionsVoice, lastCallByPatient, pendingRetries, timers, capacity >>

\* client.calls.create settles: sessions.set and lastCallByKey.set(callback || to);
\* a /chat/web handler that awaited it moves its intake session to calling and
\* answers (s is the object the store holds)
BackendPlaceDone(op, ok) ==
  /\ Idle
  /\ op \in Placing
  /\ ok => capacity > 0
  /\ capacity' = IF ok THEN capacity - 1 ELSE capacity
  /\ inflight' = inflight \ {op}
  /\ sessionsVoice' = IF ok THEN Append(sessionsVoice, NewSession(op.details, now))
                            ELSE sessionsVoice
  /\ lastCallByPatient' =
       IF ok THEN MapSet(lastCallByPatient,
                         IF op.details.callback # NoCallback THEN op.details.callback
                                                             ELSE op.details.to,
                         op.details)
             ELSE lastCallByPatient
  /\ smsSessions' = IF ok /\ op.origin = "chat.web"
                        THEN [smsSessions EXCEPT ![op.key].state = "calling"]
                        ELSE smsSessions
  /\ resp' = RespFor(op.key, 0,
                     Resp(IF op.origin = "chat.web" THEN "chat.web" ELSE "chat",
                          IF ok THEN Len(sessionsVoice) + 1 ELSE 0, op.speech,
                          IF ok /\ op.origin = "chat.web" THEN <<CallingLine>> ELSE <<>>,
                          "none", <<>>, IF ok THEN "ok" ELSE "error"))
  /\ UNCHANGED << now, pendingRetries, timers >>

\* POST /voice of the backend: no guard on a missing session, so
\* session.userRequest throws
BackendVoice(sid) ==
  /\ Idle
  /\ IF sid \notin DOMAIN sessionsVoice
     THEN /\ resp' = Resp("voice", sid, <<>>, <<>>, "none", <<>>, "error")
          /\ UNCHANGED sessionsVoice
     ELSE /\ CanAppend(1)
          /\ sessionsVoice' = [sessionsVoice EXCEPT ![sid].transcript =
                                 Append(@, [from |-> "ai", text |-> FirstLine])]
          /\ resp' = RespOn("voice", sid, <<>>, sessionsVoice[sid], FirstLine, "gather",
                            <<>>, "")
  /\ UNCHANGED << smsSessions, now, lastCallByPatient, pendingRetries, timers, inflight, capacity >>

\* POST /status of the backend
BackendStatus(sid, callStatus) ==
  /\ Idle
  /\ resp' = Resp("status", sid, <<callStatus>>, <<>>, "none", <<>>, "200")
  /\ UNCHANGED << smsSessions, now, sessionsVoice, lastCallByPatient, pendingRetries, timers, inflight,
                  capacity >>

\* POST /gather of the backend
BackendGather(sid, speech) ==
  /\ Idle
  /\ UNCHANGED << smsSessions, now, lastCallByPatient, pendingRetries, timers, inflight, capacity >>
  /\ IF sid \notin DOMAIN sessionsVoice
     THEN /\ resp' = Resp("gather", sid, <<>>, BackendLostLine, "hangup", <<>>, "")
          /\ UNCHANGED sessionsVoice
     ELSE
     LET s == sessionsVoice[sid]
         lower == ToLower(speech)
         cb == s.userRequest.callback
         heard == s.transcript \o (IF lower # <<>> THEN << [from |-> "rx", text |-> lower] >>
                                                  ELSE << >>)
         since == IF s.onHoldSince = NoTime THEN now ELSE s.onHoldSince
         intent == BackendIntent(lower)
     IN
     IF now - s.startedAt > MAX_CALL_MS
     THEN /\ resp' = RespOn("gather", sid, speech, s, BackendWrapUpLine, "hangup", <<>>, "")
          /\ UNCHANGED sessionsVoice
     ELSE
     /\ CanAppend(1)
     /\ IF Matches(lower, BackendHoldRe)
        THEN /\ sessionsVoice' = [sessionsVoice EXCEPT ![sid].transcript = heard,
                                                       ![sid].onHoldSince = since]
             /\ resp' = IF now - since > MAX_HOLD_MS
                        THEN RespOn("gather", sid, speech, s, FollowUpLine, "hangup", <<>>, "")
                        ELSE RespOn("gather", sid, speech, s, HoldAckLine,
                                    "pause:15,gather:5", <<>>, "")
        ELSE
        CASE intent = "walkin" ->
               \E sendOk \in BOOLEAN :
                 /\ sessionsVoice' = [sessionsVoice EXCEPT
                      ![sid].transcript = heard,
                      ![sid].onHoldSince = NoTime,
                      ![sid].confirmed = WalkInTime,
                      ![sid].status = "walk_in"]
                 /\ resp' = RespOn("gather", sid, speech, s, BackendWalkInLine, "hangup",
                                   << Sms(IF cb # NoCallback THEN cb ELSE s.userRequest.clinicPhone,
                                          BackendWalkInBody(s.userRequest.clinicName),
                                          sendOk) >>, "")
          [] intent = "time" ->
               \E parsed \in BOOLEAN :
                 LET clean == CleanTime(speech, parsed)
                 IN  /\ sessionsVoice' = [sessionsVoice EXCEPT
                          ![sid].transcript = heard,
                          ![sid].onHoldSince = NoTime,
                          ![sid].confirmed = clean]
                     /\ resp' = RespOn("gather", sid, speech, s, BackendConfirmLine(clean),
                                       "gather:5", <<>>, "")
          [] intent = "yes" /\ s.confirmed # NoConfirmed ->
               \E sendOk \in BOOLEAN :
                 /\ cb = NoCallback => ~sendOk
                 /\ sessionsVoice' = [sessionsVoice EXCEPT
                      ![sid].transcript = heard,
                      ![sid].onHoldSince = NoTime,
                      ![sid].status = "confirmed"]
                 /\ resp' = RespOn("gather", sid, speech, s, BackendThanksLine, "hangup",
                                   << Sms(cb, ConfirmedBody(s.confirmed,
                                                            s.userRequest.clinicName),
                                          sendOk) >>, "")
          [] intent = "no" ->
               /\ sessionsVoice' = [sessionsVoice EXCEPT ![sid].transcript = heard,
                                                         ![sid].onHoldSince = NoTime]
               /\ resp' = RespOn("gather", sid, speech, s, BackendRetryLine, "gather:5",
                                 <<>>, "")
          [] OTHER ->
               \E aiOk \in BOOLEAN :
                 /\ sessionsVoice' = [sessionsVoice EXCEPT ![sid].transcript = heard,
                                                           ![sid].onHoldSince = NoTime]
                 /\ resp' = RespOn("gather", sid, speech, s,
                                   IF aiOk THEN AiReplyLine ELSE BackendClarifyLine,
                                   "gather:5", <<>>, "")

InitBackend == Started /\ capacity = MaxCalls

NextBackend ==
  \/ Sent
  \/ Tick
  \/ \E req \in Requests : BackendStartClinicCall(req)
  \/ \E op \in inflight, ok \in BOOLEAN : BackendPlaceDone(op, ok)
  \/ \E sid \in WebhookSids : BackendVoice(sid)
  \/ \E sid \in WebhookSids, callStatus \in CallStatuses : BackendStatus(sid, callStatus)
  \/ \E sid \in WebhookSids, speech \in BackendUtterances : BackendGather(sid, speech)

\* the dialogue machine of the backend server
SpecBackend == InitBackend /\ [][NextBackend]_vars

\* POST /chat/web: one message of a web session, up to the response or to the
\* await on startClinicCall (s is the object the store holds, so what the
\* handler assigned is in the store when it suspends)
ChatWeb(from, text, clinics) ==
  /\ Idle
  /\ LET s == IF MapHas(smsSessions, from) THEN smsSessions[from] ELSE NewIntake
         r == ChatWebStep(s, text, clinics)
     IN  /\ smsSessions' = MapSet(smsSessions, from, r.s)
         /\ IF r.call
            THEN /\ CanPlace
                 /\ inflight' = inflight \cup
                      { Op("place", "chat.web", from,
                           [to |-> r.s.chosenClinic.phone,
                            clinicName |-> r.s.chosenClinic.name,
                            callback |-> NoCallback], 0, text) }
                 /\ resp' = RespFor(from, 0, Resp("chat.web.await", 0, text, << >>, "none",
                                                  << >>, ""))
            ELSE /\ UNCHANGED inflight
                 /\ resp' = RespFor(from, 0, Resp("chat.web", 0, text, r.lines, "none",
                                                  << >>, "200"))
  /\ UNCHANGED << now, sessionsVoice, lastCallByPatient, pendingRetries, timers, capacity >>

NextIntake ==
  \/ Sent
  \/ \E from \in WebSessions, text \in ChatTexts, clinics \in ClinicLists :
       ChatWeb(from, text, clinics)
  \/ \E req \in Requests : BackendStartClinicCall(req)
  \/ \E op \in inflight, ok \in BOOLEAN : BackendPlaceDone(op, ok)

\* the web chat intake beside the call placement of the backend server
SpecIntake == InitBackend /\ [][NextIntake]_vars

\* ---------------------------------------------------------------- properties
\* a /gather turn on a stored session has been answered
Turn == resp.handler = "gather" /\ resp.before # NoSession

\* the session of the answered turn, as the handler left it
After == sessionsVoice[resp.sid]

\* the time since the call was placed, when the answered turn began
Elapsed == resp.at - resp.before.startedAt

\* the confirmation messages among those the answered handler dispatched
Confirmations == { i \in DOMAIN resp.sms : resp.sms[i].body[1] = "Confirmed:" }

\* the step is cancelRetry(p), called by /sms
CancelStep(p) ==
  /\ resp = NoResp
  /\ resp'.handler \in { "sms", "sms.await" }
  /\ resp'.ret \in { "true", "false" }
  /\ resp'.key = p

\* C1: within the call-duration ceiling, a turn whose utterance contains a hold
\* phrase is answered as a hold turn (wait and re-listen, or the hold-timeout
\* hangup) even if the utterance also holds an affirmative, a negative or a time:
\* status and the confirmed field are unchanged and no confirmation is sent.
C1_HoldWins ==
  (Turn /\ Elapsed <= MAX_CALL_MS /\ IsHold(ToLower(resp.speech))) =>
     /\ \/ resp.say = HoldAckLine /\ resp.next = "pause:15,gather:5"
        \/ resp.say = FollowUpLine /\ resp.next = "hangup"
     /\ After.status = resp.before.status
     /\ After.confirmed = resp.before.confirmed
     /\ Confirmations = {}

\* a time is proposed and the receptionist says "yes one moment": the turn holds
C1_Witness ==
  /\ Turn
  /\ Elapsed <= MAX_CALL_MS
  /\ resp.speech = <<"yes", "one", "moment">>
  /\ resp.before.confirmed # NoConfirmed
  /\ resp.say = HoldAckLine
  /\ After.status = "in_progress"

\* C2: in every reachable state the confirmed field of a session is set if and
\* only if the status of the session is confirmed.
C2_ConfirmedIffStatus ==
  \A sid \in DOMAIN sessionsVoice :
    (sessionsVoice[sid].confirmed # NoConfirmed) <=> (sessionsVoice[sid].status = "confirmed")

\* C3: a turn that begins more than MAX_CALL_MS after the call was placed is
\* answered with the wrap-up line and a hangup whatever the utterance holds; the
\* session (transcript, status, confirmed field) is left as it was and no
\* confirmation is sent.
C3_CapWins ==
  (Turn /\ Elapsed > MAX_CALL_MS) =>
     /\ resp.say = WrapUpLine
     /\ resp.next = "hangup"
     /\ After = resp.before
     /\ Confirmations = {}

\* a time is proposed, the cap passes, and the receptionist says "Yes"
C3_Witness ==
  /\ Turn
  /\ Elapsed > MAX_CALL_MS
  /\ resp.speech = <<"Yes">>
  /\ resp.before.confirmed # NoConfirmed
  /\ resp.say = WrapUpLine
  /\ After.status = "in_progress"

\* C4: a hold turn within the call cap whose session has been on hold for more
\* than MAX_HOLD_MS is answered with a hangup and, if the session has a callback,
\* a retry timer of DEFAULT_RETRY_MS is tabled for the callback after the turn.
C4_HoldTimeoutArms ==
  (/\ Turn
   /\ Elapsed <= MAX_CALL_MS
   /\ IsHold(ToLower(resp.speech))
   /\ resp.before.onHoldSince # NoTime
   /\ resp.at - resp.before.onHoldSince > MAX_HOLD_MS) =>
     /\ resp.next = "hangup"
     /\ LET cb == resp.before.userRequest.callback
        IN  cb # NoCallback =>
              /\ cb \in DOMAIN pendingRetries
              /\ timers[pendingRetries[cb]].state = "armed"
              /\ timers[pendingRetries[cb]].delayMs = DEFAULT_RETRY_MS

\* C5: cancelRetry returns false and changes nothing when the identity has no
\* tabled timer; when it has one it returns true, the entry is removed and the
\* timer is cleared; a cleared timer stays cleared, so it never fires.
C5_Cancel ==
  [][ /\ \A p \in Patients :
           CancelStep(p) =>
             IF p \in DOMAIN pendingRetries
             THEN /\ resp'.ret = "true"
                  /\ p \notin DOMAIN pendingRetries'
                  /\ timers'[pendingRetries[p]].state = "cleared"
             ELSE /\ resp'.ret = "false"
                  /\ UNCHANGED << pendingRetries, timers >>
      /\ \A id \in DOMAIN timers :
           timers[id].state = "cleared" =>
             /\ timers'[id].state = "cleared"
             /\ \A op \in Placing' : ~(op.origin = "retry" /\ op.ref = id)
    ]_vars

\* CANCEL has just removed a tabled timer
C5_Witness ==
  /\ resp.handler = "sms"
  /\ resp.ret = "true"
  /\ resp.key \notin DOMAIN pendingRetries
  /\ \E id \in DOMAIN timers : timers[id].patient = resp.key /\ timers[id].state = "cleared"

\* C6: an identity has at most one armed timer, the one its table entry names,
\* and it is the newest timer scheduled for the identity: scheduling over an
\* existing ticket replaces it.
C6_OneTicket ==
  /\ \A p \in DOMAIN pendingRetries :
       /\ pendingRetries[p] \in DOMAIN timers
       /\ timers[pendingRetries[p]].patient = p
  /\ \A id \in DOMAIN timers :
       timers[id].state = "armed" =>
         /\ timers[id].patient \in DOMAIN pendingRetries
         /\ pendingRetries[timers[id].patient] = id
         /\ \A later \in DOMAIN timers :
              timers[later].patient = timers[id].patient => later <= id

\* a second hold timeout has scheduled over the ticket of the first
C6_Witness ==
  /\ Turn
  /\ resp.say = FollowUpLine
  /\ Len(resp.sms) = 1
  /\ resp.sms[1].delivered
  /\ Len(timers) >= 2
  /\ timers[Len(timers)].state = "armed"
  /\ timers[Len(timers) - 1].state = "cleared"
  /\ timers[Len(timers) - 1].patient = timers[Len(timers)].patient

\* C7: a time turn leaves status in_progress with the confirmed field unset and
\* listens again; a yes turn right after it sets status confirmed with the
\* confirmed field equal to the proposed time, hangs up, and dispatches exactly
\* one message, carrying that time and the clinic name.
C7_ProposeThenConfirm ==
  /\ (Turn /\ Elapsed <= MAX_CALL_MS /\ ~IsHold(ToLower(resp.speech))
        /\ Intent(ToLower(resp.speech)) = "time"
        /\ resp.before.status = "in_progress") =>
       /\ After.status = "in_progress"
       /\ After.confirmed = NoConfirmed
       /\ resp.next = "gather:5"
  /\ (Turn /\ resp.say = ThanksLine) =>
       /\ After.status = "confirmed"
       /\ After.confirmed = resp.before.confirmed
       /\ resp.next = "hangup"
       /\ resp.before.userRequest.callback # NoCallback =>
            /\ Len(resp.sms) = 1
            /\ resp.sms[1].body = ConfirmedBody(After.confirmed,
                                                After.userRequest.clinicName)

\* the step is the callback of timer id beginning
FireStep(id) ==
  /\ resp = NoResp
  /\ resp'.handler \in { "retryTimer", "retryTimer.await" }
  /\ resp'.timer = id
  /\ timers[id].state = "armed"

\* the step is the placement of the callback of timer id settling
FireDoneStep(id) ==
  /\ resp = NoResp
  /\ resp'.handler = "retryTimer"
  /\ resp'.timer = id
  /\ timers[id].state = "fired"

\* the placements in flight for the callback of timer id
Replacing(id) == { op \in Placing : op.origin = "retry" /\ op.ref = id }

\* C8: a firing timer removes its table entry and places the call once, with the
\* details stored in the ticket; a placement that succeeds is followed by the
\* retry notice to the patient, one that fails by the failure notice; neither
\* the firing nor the placement arms a timer.
C8_Fire ==
  /\ [](resp.handler = "retryTimer" =>
          LET t == timers[resp.timer]
          IN  /\ t.state = "fired"
              /\ Replacing(resp.timer) = {}
              /\ Len(resp.sms) >= 1
              /\ resp.sms[1].to = t.details.callback
              /\ IF resp.ret = "ok"
                 THEN /\ resp.sid \in DOMAIN sessionsVoice
                      /\ sessionsVoice[resp.sid].userRequest =
                           NewSession(t.details, NoTime).userRequest
                      /\ resp.sms[1].body = RetryingBody(t.details.clinicName)
                 ELSE /\ Len(resp.sms) = 1
                      /\ resp.sms[1].body = RetryFailedBody)
  /\ [][ \A id \in DOMAIN timers :
           /\ FireStep(id) =>
                /\ timers[id].patient \notin DOMAIN pendingRetries'
                /\ Len(timers') = Len(timers)
                /\ Cardinality(Replacing(id)') = 1
                /\ sessionsVoice' = sessionsVoice
           /\ FireDoneStep(id) =>
                /\ UNCHANGED << pendingRetries, timers >>
                /\ Cardinality(Replacing(id)) = 1
                /\ Len(sessionsVoice') =
                     Len(sessionsVoice) + (IF resp'.ret = "ok" THEN 1 ELSE 0)
       ]_vars

\* a timer fired, the call was placed again and the retry notice went out
C8_Witness ==
  /\ resp.handler = "retryTimer"
  /\ resp.ret = "ok"
  /\ resp.sms = << Sms(resp.key, RetryingBody(timers[resp.timer].details.clinicName), TRUE) >>
  /\ sessionsVoice[resp.sid].transcript = << >>

\* C9: once a timer has begun firing no table entry names it, so a cancel that
\* arrives while its placement is in flight finds no ticket of it, returns true
\* only for an armed timer, and leaves the placement in flight to complete.
C9_CancelAfterFire ==
  /\ [](\A id \in DOMAIN timers :
          timers[id].state = "fired" =>
            \A p \in DOMAIN pendingRetries : pendingRetries[p] # id)
  /\ [][ \A p \in Patients :
           CancelStep(p) =>
             /\ resp'.ret = "true" =>
                  /\ p \in DOMAIN pendingRetries
                  /\ timers[pendingRetries[p]].state = "armed"
             /\ (\E id \in DOMAIN timers : timers[id].patient = p /\ Replacing(id) # {}
                   /\ p \notin DOMAIN pendingRetries) => resp'.ret = "false"
             /\ \A id \in DOMAIN timers :
                  /\ Replacing(id) \subseteq Replacing(id)'
                  /\ timers[id].state = "fired" => timers'[id] = timers[id]
       ]_vars

\* CANCEL arrived while the placement of a fired timer was in flight
C9_Witness ==
  /\ resp.handler = "sms"
  /\ resp.ret = "false"
  /\ \E id \in DOMAIN timers :
       /\ timers[id].state = "fired"
       /\ timers[id].patient = resp.key
       /\ Replacing(id) # {}

\* C10: /gather for a CallSid the store does not know answers with the
\* context-lost line and a hangup, /status for one acknowledges; neither throws,
\* creates a session, dispatches a message or arms a timer.
C10_UnknownCall ==
  [][ (/\ resp = NoResp
       /\ resp'.handler \in { "gather", "status" }
       /\ resp'.sid \notin DOMAIN sessionsVoice) =>
        /\ UNCHANGED << sessionsVoice, lastCallByPatient, pendingRetries, timers, inflight >>
        /\ resp'.sms = << >>
        /\ resp'.ret # "error"
        /\ resp'.handler = "gather" => resp'.say = ContextLostLine /\ resp'.next = "hangup"
        /\ resp'.handler = "status" => resp'.ret = "200" /\ resp'.next = "none"
    ]_vars

\* /gather has answered a CallSid that has no session, a timer being armed
C10_Witness ==
  /\ resp.handler = "gather"
  /\ resp.sid \notin DOMAIN sessionsVoice
  /\ resp.say = ContextLostLine
  /\ \E id \in DOMAIN timers : timers[id].state = "armed"

\* a /gather turn or a /status event on a stored session has been answered
\* after it dispatched a message
Dispatched ==
  /\ resp.handler \in { "gather", "status" }
  /\ resp.before # NoSession
  /\ resp.sms # << >>

\* C11: whether client.messages.create resolves or rejects, a /gather turn or
\* /status event that dispatches a message returns without an error, and its
\* spoken line, its listen/hangup instruction and the session it leaves are
\* those of the branch that dispatched: they do not depend on the delivery.
C11_SendFailureSwallowed ==
  Dispatched =>
    /\ resp.ret # "error"
    /\ LET body == resp.sms[1].body
       IN  CASE body = CapBody ->
                  /\ resp.say = WrapUpLine /\ resp.next = "hangup"
                  /\ After = resp.before
             [] body = HoldBody ->
                  /\ resp.say = FollowUpLine /\ resp.next = "hangup"
                  /\ After = [resp.before EXCEPT
                                !.transcript = @ \o Rx(resp.speech)]
             [] body[1] = "Confirmed:" ->
                  /\ resp.say = ThanksLine /\ resp.next = "hangup"
                  /\ After = [resp.before EXCEPT
                                !.transcript = @ \o Rx(resp.speech) \o Ai(ThanksLine),
                                !.onHoldSince = NoTime,
                                !.status = "confirmed"]
             [] OTHER ->
                  /\ resp.handler = "status"
                  /\ resp.ret = "200"
                  /\ After = resp.before

\* the confirmation message was rejected and the turn confirmed all the same
C11_Witness ==
  /\ Dispatched
  /\ resp.sms[1].body[1] = "Confirmed:"
  /\ ~resp.sms[1].delivered
  /\ resp.say = ThanksLine
  /\ After.status = "confirmed"

\* the answered turn was within the call cap and reached the fallback
FallbackTurn ==
  /\ Turn
  /\ Elapsed <= MAX_CALL_MS
  /\ GatherBranch(ToLower(resp.speech), resp.before.confirmed # NoConfirmed) = "fallback"

\* C12: a turn that reaches the fallback returns a spoken line and the re-listen
\* instruction whether nextAIUtterance returns or throws (then the line is the
\* fixed clarifying question); status and the confirmed field are untouched and
\* onHoldSince is null either way.
C12_FallbackNeverFails ==
  FallbackTurn =>
    /\ resp.say \in { AiReplyLine, ClarifyLine }
    /\ resp.next = "gather:5"
    /\ resp.ret # "error"
    /\ After.status = resp.before.status
    /\ After.confirmed = resp.before.confirmed
    /\ After.onHoldSince = NoTime

\* nextAIUtterance threw and the clarifying question was spoken
C12_Witness ==
  /\ FallbackTurn
  /\ resp.say = ClarifyLine
  /\ resp.next = "gather:5"
  /\ After.transcript = resp.before.transcript \o Rx(resp.speech) \o Ai(ClarifyLine)

\* the answered turn was within the call cap and its utterance held no hold
\* phrase and matched no intent pattern
NoPatternTurn ==
  /\ Turn
  /\ Elapsed <= MAX_CALL_MS
  /\ ~IsHold(ToLower(resp.speech))
  /\ Intent(ToLower(resp.speech)) = "other"
  /\ ~IsWalkIn(ToLower(resp.speech))

\* C13 (as stated): an utterance with no hold phrase that matches no intent
\* pattern gets the fallback text and a re-listen, and status, the confirmed
\* field and onHoldSince are unchanged.
C13_OtherUnchanged ==
  NoPatternTurn =>
    /\ resp.say \in { AiReplyLine, ClarifyLine }
    /\ resp.next = "gather:5"
    /\ After.status = resp.before.status
    /\ After.confirmed = resp.before.confirmed
    /\ After.onHoldSince = resp.before.onHoldSince

\* C13 (amended): an utterance with no hold phrase that matches no intent
\* pattern gets the fallback text and a re-listen; status and the confirmed
\* field are unchanged, and onHoldSince is null after the turn: unchanged if it
\* was null, cleared if the call was on hold.
C13_OtherClearsHold ==
  NoPatternTurn =>
    /\ resp.say \in { AiReplyLine, ClarifyLine }
    /\ resp.next = "gather:5"
    /\ After.status = resp.before.status
    /\ After.confirmed = resp.before.confirmed
    /\ After.onHoldSince = NoTime

\* the call was on hold and the receptionist came back with "we're closed"
C13_Witness ==
  /\ NoPatternTurn
  /\ resp.speech = <<"we're", "closed">>
  /\ resp.before.onHoldSince # NoTime
  /\ After.onHoldSince = NoTime
  /\ resp.next = "gather:5"

\* C14: /status never arms, replaces or cancels a retry timer and never places
\* a call; for a session with a callback it dispatches the call-failed notice
\* for a failure-class status, the ended notice for completed while status is
\* not confirmed, and nothing otherwise.
C14_StatusOnlyNotifies ==
  [][ (resp = NoResp /\ resp'.handler = "status") =>
        /\ UNCHANGED << pendingRetries, timers, inflight, capacity, sessionsVoice,
                        lastCallByPatient >>
        /\ resp'.before # NoSession =>
             LET cb == resp'.before.userRequest.callback
                 st == resp'.speech[1]
                 sent == resp'.sms
             IN  IF cb = NoCallback THEN sent = << >>
                 ELSE IF st \in { "failed", "busy", "no-answer", "canceled" }
                 THEN Len(sent) = 1 /\ sent[1].to = cb /\ sent[1].body = FailedBody(st)
                 ELSE IF st = "completed" /\ resp'.before.status # "confirmed"
                 THEN Len(sent) = 1 /\ sent[1].to = cb /\ sent[1].body = EndedBody
                 ELSE sent = << >>
    ]_vars

\* a confirmed call completed and /status sent nothing
C14_Witness ==
  /\ resp.handler = "status"
  /\ resp.speech = <<"completed">>
  /\ resp.before # NoSession
  /\ resp.before.status = "confirmed"
  /\ resp.before.userRequest.callback # NoCallback
  /\ resp.sms = << >>

\* C15: the status of a session changes only from in_progress to confirmed or
\* from in_progress to walk_in: once it is confirmed or walk_in no webhook
\* changes it, and no handler sets it to abandoned.
C15_StatusMonotonic ==
  [][ \A sid \in DOMAIN sessionsVoice :
        sessionsVoice'[sid].status # sessionsVoice[sid].status =>
          /\ sessionsVoice[sid].status = "in_progress"
          /\ sessionsVoice'[sid].status \in { "confirmed", "walk_in" }
    ]_vars

\* C16: once the status of a session is confirmed its confirmed field never
\* changes, whatever webhook arrives for the call afterwards.
C16_ConfirmedTimeImmutable ==
  [][ \A sid \in DOMAIN sessionsVoice :
        sessionsVoice[sid].status = "confirmed" =>
          sessionsVoice'[sid].confirmed = sessionsVoice[sid].confirmed
    ]_vars

\* the entries the answered turn added to the transcript of its session
Added == SubSeq(After.transcript, Len(resp.before.transcript) + 1, Len(After.transcript))

\* C17: the transcript of a session only grows at its end: at every step the
\* transcript before is a prefix of the transcript after; a turn within the call
\* cap appends a non-empty utterance as exactly one receptionist entry, the
\* first it adds, and appends no receptionist entry for an empty utterance.
C17_TranscriptAppendOnly ==
  /\ [](Turn /\ Elapsed <= MAX_CALL_MS =>
          /\ Len(After.transcript) >= Len(resp.before.transcript)
          /\ LET rx == { i \in DOMAIN Added : Added[i].from = "rx" }
             IN  IF resp.speech # << >>
                 THEN rx = {1} /\ Added[1].text = resp.speech
                 ELSE rx = {})
  /\ [][ \A sid \in DOMAIN sessionsVoice :
           /\ sid \in DOMAIN sessionsVoice'
           /\ Len(sessionsVoice[sid].transcript) <= Len(sessionsVoice'[sid].transcript)
           /\ SubSeq(sessionsVoice'[sid].transcript, 1, Len(sessionsVoice[sid].transcript))
                = sessionsVoice[sid].transcript
       ]_vars

\* silence was gathered after the greeting and a turn: only the reply was appended
C17_Witness ==
  /\ Turn
  /\ Elapsed <= MAX_CALL_MS
  /\ resp.speech = << >>
  /\ Len(resp.before.transcript) >= 2
  /\ Len(Added) = 1
  /\ Added[1].from = "ai"

\* C18: after a turn within the call cap onHoldSince is set if and only if the
\* utterance of the turn held a hold phrase: the first hold turn sets it to the
\* time of the turn, a hold turn that follows one keeps the timestamp, and a
\* turn without a hold phrase clears it.
C18_OnHoldSince ==
  (Turn /\ Elapsed <= MAX_CALL_MS) =>
    /\ (After.onHoldSince # NoTime) <=> IsHold(ToLower(resp.speech))
    /\ IsHold(ToLower(resp.speech)) =>
         After.onHoldSince = IF resp.before.onHoldSince = NoTime
                             THEN resp.at ELSE resp.before.onHoldSince

\* a second hold turn, later than the first, kept the time of the first
C18_Witness ==
  /\ Turn
  /\ Elapsed <= MAX_CALL_MS
  /\ IsHold(ToLower(resp.speech))
  /\ resp.before.onHoldSince # NoTime
  /\ resp.at > resp.before.onHoldSince
  /\ After.onHoldSince = resp.before.onHoldSince

\* C19: a /voice, /gather or /status webhook for one CallSid leaves the session
\* of every other CallSid as it was, however the webhooks of the calls interleave.
C19_SessionsIndependent ==
  [][ \A a \in WebhookSids :
        (/\ resp = NoResp
         /\ resp'.handler \in { "voice", "gather", "gather.await", "status" }
         /\ resp'.sid = a) =>
          \A b \in DOMAIN sessionsVoice \ {a} :
            /\ b \in DOMAIN sessionsVoice'
            /\ sessionsVoice'[b] = sessionsVoice[b]
    ]_vars

\* a turn of the first call was answered while the second call had a proposed time
C19_Witness ==
  /\ Turn
  /\ resp.sid = 1
  /\ Len(sessionsVoice) = 2
  /\ After.transcript # resp.before.transcript
  /\ sessionsVoice[2].confirmed # NoConfirmed
  /\ sessionsVoice[2] # sessionsVoice[1]

\* the answered /gather met a terminal outcome: the session is missing, the call
\* cap or the hold ceiling is passed, or a proposed time is agreed to
Terminal ==
  \/ resp.before = NoSession
  \/ Elapsed > MAX_CALL_MS
  \/ /\ IsHold(ToLower(resp.speech))
     /\ resp.before.onHoldSince # NoTime
     /\ resp.at - resp.before.onHoldSince > MAX_HOLD_MS
  \/ /\ ~IsHold(ToLower(resp.speech))
     /\ Intent(ToLower(resp.speech)) = "yes"
     /\ resp.before.confirmed # NoConfirmed

\* C20: every /gather response carries either a hangup or a re-listen with the
\* 5-second per-turn timeout, never both or neither; it hangs up exactly on a
\* terminal outcome.
C20_HangupOrListen ==
  resp.handler = "gather" =>
    /\ resp.next \in { "hangup", "gather:5", "pause:15,gather:5" }
    /\ resp.say # << >>
    /\ (resp.next = "hangup") <=> Terminal

\* the receptionist refused and the turn listens again
C20_Witness ==
  /\ Turn
  /\ ~Terminal
  /\ resp.speech = <<"No">>
  /\ resp.say = RetryLine
  /\ resp.next = "gather:5"

\* the step answers a /gather turn that began past the total call cap
CapStep == Idle /\ Turn' /\ Elapsed' > MAX_CALL_MS

WalkInTurn ==
  /\ Turn
  /\ Elapsed <= MAX_CALL_MS
  /\ LET lower == ToLower(resp.speech)
     IN  /\ ~IsHold(lower) /\ ~Matches(lower, BackendHoldRe)
         /\ Intent(lower) = "other" /\ IsWalkIn(lower)
         /\ BackendIntent(lower) = "walkin"

\* C22: a turn classified as walk-in speaks the walk-in acknowledgement, leaves
\* the confirmed field as it was, never makes the status confirmed, and when it
\* ends the call the status of the session is walk_in.
C22_WalkInSoftSuccess ==
  WalkInTurn =>
    /\ resp.say \in { AskDocsLine, BackendWalkInLine }
    /\ After.confirmed = resp.before.confirmed
    /\ After.status = "confirmed" => resp.before.status = "confirmed"
    /\ resp.next = "hangup" => After.status = "walk_in"

\* the classification order the specification gives for /gather: hold phrase,
\* then walk-in phrasing, then affirmative and negative words, then date and
\* time cues, else other
ReferenceIntent(lower) ==
  IF IsHold(lower) THEN "hold"
  ELSE IF IsWalkIn(lower) THEN "walkin"
  ELSE IF Matches(lower, YesRe) THEN "yes"
  ELSE IF Matches(lower, NoRe) THEN "no"
  ELSE IF Matches(lower, DayRe \cup ClockRe \cup DayPartRe) THEN "time"
  ELSE "other"

\* the branch that answered the turn, read off the line it spoke
Taken ==
  CASE resp.say \in { HoldAckLine, FollowUpLine } -> "hold"
    [] resp.say = AskDocsLine -> "walkin"
    [] resp.say = ThanksLine -> "yes"
    [] resp.say = RetryLine -> "no"
    [] resp.say \in { AiReplyLine, ClarifyLine } -> "other"
    [] OTHER -> "time"

\* C23: a turn within the call cap whose utterance has no hold phrase is
\* answered by the branch of the reference order walk-in, yes/no, time, other
\* (an affirmative with no time proposed being answered by the fallback): a
\* walk-in phrase wins over an affirmative, a negative or a time cue, and an
\* affirmative or negative wins over a time cue.
C23_ReferenceOrder ==
  (Turn /\ Elapsed <= MAX_CALL_MS /\ ~IsHold(ToLower(resp.speech))) =>
     LET ref == ReferenceIntent(ToLower(resp.speech))
     IN  Taken = IF ref = "yes" /\ resp.before.confirmed = NoConfirmed THEN "other" ELSE ref

\* the answered turn is within the call cap, has no hold phrase and its intent
\* is time
TimeTurn ==
  /\ Turn
  /\ Elapsed <= MAX_CALL_MS
  /\ ~IsHold(ToLower(resp.speech))
  /\ Intent(ToLower(resp.speech)) = "time"

\* C24: on a time-intent turn the proposed time is the formatted date when the
\* parser found one and the utterance verbatim when it did not; either way it is
\* not empty, the confirmation prompt naming it is spoken and recorded, and the
\* turn re-listens.
C24_TimeOrVerbatim ==
  TimeTurn =>
    /\ After.confirmed \in { FormatDate(resp.speech), resp.speech }
    /\ After.confirmed # << >>
    /\ resp.say = ConfirmLine(After.confirmed)
    /\ After.transcript[Len(After.transcript)] = [from |-> "ai", text |-> resp.say]
    /\ resp.next = "gather:5"
    /\ After.status = resp.before.status

\* the parser finds no date in "Tuesday at 2pm": the utterance itself is proposed
C24_Witness ==
  /\ TimeTurn
  /\ resp.speech = <<"Tuesday", "at", "2pm">>
  /\ After.confirmed = <<"Tuesday", "at", "2pm">>
  /\ resp.next = "gather:5"

\* the parser finds a date: its en-US rendering is proposed
C24_WitnessParsed ==
  /\ TimeTurn
  /\ After.confirmed = FormatDate(resp.speech)
  /\ After.confirmed # resp.speech

\* the delay a WAIT reply asks for
WaitDelay(body) == IF body = <<"WAIT", "5">> THEN SHORT_WAIT_MS ELSE DEFAULT_RETRY_MS

\* C25: once /sms has answered a WAIT 5 or WAIT 15 reply from an identity with a
\* last call on file, a retry timer of SHORT_WAIT_MS or DEFAULT_RETRY_MS is
\* armed and tabled for that identity.
C25_WaitArms ==
  (/\ resp.handler = "sms"
   /\ resp.speech \in { <<"WAIT", "5">>, <<"WAIT", "15">> }
   /\ MapHas(lastCallByPatient, resp.key)) =>
     /\ MapHas(pendingRetries, resp.key)
     /\ timers[pendingRetries[resp.key]].state = "armed"
     /\ timers[pendingRetries[resp.key]].delayMs = WaitDelay(resp.speech)

\* C26: /voice for a CallSid without a session answers with a spoken line and a
\* hangup and does not throw; for a CallSid with a session it appends the
\* greeting as an agent entry of the transcript, answers with the greeting and a
\* listen instruction, and leaves status, the confirmed field and onHoldSince as
\* they were.
C26_VoiceAnswered ==
  resp.handler = "voice" =>
    IF resp.before = NoSession
    THEN /\ resp.ret # "error"
         /\ resp.say # << >>
         /\ resp.next = "hangup"
    ELSE /\ resp.ret # "error"
         /\ resp.say = FirstLine
         /\ resp.next = "gather"
         /\ After.transcript = Append(resp.before.transcript, [from |-> "ai", text |-> FirstLine])
         /\ After.status = resp.before.status
         /\ After.confirmed = resp.before.confirmed
         /\ After.onHoldSince = resp.before.onHoldSince

\* the answered turn is within the call cap, has no hold phrase and its intent
\* is yes
YesTurn ==
  /\ Turn
  /\ Elapsed <= MAX_CALL_MS
  /\ ~IsHold(ToLower(resp.speech))
  /\ Intent(ToLower(resp.speech)) = "yes"

\* the last line the agent spoke before the answered turn was the invitation to
\* name another time: the receptionist had declined and no time was proposed since
Declined ==
  LET said == SelectSeq(resp.before.transcript, LAMBDA e : e.from = "ai")
  IN  said # << >> /\ said[Len(said)].text = RetryLine

\* C27: a yes turn that follows a no turn, with no time-intent turn in between,
\* does not make the status confirmed and sends no confirmation.
C27_YesAfterNo ==
  (YesTurn /\ Declined) =>
     /\ After.status = resp.before.status
     /\ Confirmations = {}

\* the agent asked the receptionist to confirm a time at entry i of a transcript
ProposedAt(transcript, i) ==
  /\ transcript[i].from = "ai"
  /\ transcript[i].text # << >>
  /\ transcript[i].text[1] = ConfirmLine(<< >>)[1]

C28_WitnessConfirmed ==
  /\ YesTurn
  /\ resp.before.confirmed # NoConfirmed
  /\ resp.before.status = "in_progress"
  /\ After.status = "confirmed"

\* the answered turn is a hold timeout whose notice was handed to the provider
\* with the given outcome
HoldTimeoutNotified(delivered) ==
  /\ Turn
  /\ resp.say = FollowUpLine
  /\ resp.next = "hangup"
  /\ resp.sms = << Sms(resp.before.userRequest.callback, HoldBody, delivered) >>

\* a retry timer of DEFAULT_RETRY_MS is armed and tabled for the identity
ArmedDefault(patientNumber) ==
  /\ MapHas(pendingRetries, patientNumber)
  /\ timers[pendingRetries[patientNumber]].state = "armed"
  /\ timers[pendingRetries[patientNumber]].delayMs = DEFAULT_RETRY_MS

\* C29: after a hold-timeout turn of a session with a callback the retry timer
\* of DEFAULT_RETRY_MS is armed for the callback both when the hold-timeout
\* notice was delivered and when its send failed.
C29_ArmedWhateverTheSend ==
  \A delivered \in BOOLEAN :
    HoldTimeoutNotified(delivered) => ArmedDefault(resp.before.userRequest.callback)

\* the step is /sms answering a text of the identity p without an await
SmsStep(p) ==
  /\ resp = NoResp
  /\ resp'.handler = "sms"
  /\ resp'.key = p
  /\ inflight' = inflight

\* the step is /sms suspending at its await on startClinicCall for the identity p
SmsRetryStep(p) ==
  /\ resp = NoResp
  /\ resp'.handler = "sms.await"
  /\ resp'.key = p

\* the identity has a last call with a clinic number on file
OnFile(p) == MapHas(lastCallByPatient, p) /\ lastCallByPatient[p].to # ""

\* no timer of the identity can run its callback any more, and none is tabled
NoTicket(pr, tm, p) ==
  /\ ~MapHas(pr, p)
  /\ \A id \in DOMAIN tm : tm[id].patient = p => tm[id].state # "armed"

\* the text asks for a retry: it passed the stop, start and help tests
AsksRetry(lower) ==
  /\ ~Matches(lower, StopRe \cup StartRe \cup HelpRe)
  /\ Matches(lower, RetryRe)

\* C30: a RETRY text is followed by a placement only for an identity with a
\* call on file, and by the time the call is being re-placed the identity has no
\* tabled or armed timer; a RETRY text from an identity with no call on file
\* places no call and changes no timer; a CANCEL or STOP text leaves the
\* identity without a tabled or armed timer; and a timer that is not armed
\* never runs its callback later.
C30_ManualRetryCancels ==
  [][ /\ \A p \in Patients :
           /\ SmsRetryStep(p) =>
                /\ AsksRetry(ToLower(resp'.speech))
                /\ OnFile(p)
                /\ NoTicket(pendingRetries', timers', p)
                /\ \E op \in Placing' \ Placing :
                     /\ op.origin = "sms"
                     /\ op.key = p
                     /\ op.details = lastCallByPatient[p]
           /\ (SmsStep(p) /\ Matches(ToLower(resp'.speech), StopRe)) =>
                NoTicket(pendingRetries', timers', p)
           /\ (SmsStep(p) /\ AsksRetry(ToLower(resp'.speech)) /\ ~OnFile(p)) =>
                UNCHANGED << pendingRetries, timers, sessionsVoice, lastCallByPatient,
                             capacity >>
      /\ \A id \in DOMAIN timers :
           timers[id].state # "armed" => timers'[id].state = timers[id].state
    ]_vars

\* RETRY arrived while a retry was scheduled: the timer is cleared and the call
\* is being placed again
C30_Witness ==
  /\ resp.handler = "sms.await"
  /\ resp.speech = <<"RETRY">>
  /\ resp.ret = "true"
  /\ NoTicket(pendingRetries, timers, resp.key)
  /\ \E id \in DOMAIN timers : timers[id].patient = resp.key /\ timers[id].state = "cleared"
  /\ \E op \in Placing : op.origin = "sms" /\ op.key = resp.key

\* RETRY arrived from an identity with no call on file
C30_WitnessNoCall ==
  /\ resp.handler = "sms"
  /\ resp.speech = <<"RETRY">>
  /\ ~OnFile(resp.key)
  /\ resp.say = <<"I don't have a clinic on file.">>

\* the answered turn is within the call cap, has no hold phrase and its intent
\* is no
NoTurn ==
  /\ Turn
  /\ Elapsed <= MAX_CALL_MS
  /\ ~IsHold(ToLower(resp.speech))
  /\ Intent(ToLower(resp.speech)) = "no"

\* a turn that began past the call cap ends the call, whatever was said and
\* whatever the dialogue had been; the clock never runs backwards, so every
\* later turn of the call is past the cap too
CapEndsDialogue ==
  /\ [](Turn /\ Elapsed > MAX_CALL_MS => resp.next = "hangup" /\ After = resp.before)
  /\ [][now' >= now /\ \A sid \in DOMAIN sessionsVoice :
                          sessionsVoice'[sid].startedAt = sessionsVoice[sid].startedAt]_vars

\* C31 as stated: a no turn re-prompts and re-listens and leaves status, the
\* proposed time and onHoldSince unchanged; a turn that began more than
\* MAX_CALL_MS after startedAt always hangs up.
C31_DeclineLoopUnchanged ==
  /\ [](NoTurn =>
         /\ resp.say = RetryLine /\ resp.next = "gather:5"
         /\ After.status = resp.before.status
         /\ After.confirmed = resp.before.confirmed
         /\ After.onHoldSince = resp.before.onHoldSince)
  /\ CapEndsDialogue

\* C31, amended: a no turn re-prompts and re-listens, leaves status and the
\* proposed time unchanged and leaves onHoldSince null (clearing it when the
\* previous turn had put the call on hold); a turn that began more than
\* MAX_CALL_MS after startedAt always hangs up and changes nothing, and once a
\* call is past the cap it stays past it.
C31_DeclineLoopEnds ==
  /\ [](NoTurn =>
         /\ resp.say = RetryLine /\ resp.next = "gather:5"
         /\ After.status = resp.before.status
         /\ After.confirmed = resp.before.confirmed
         /\ After.onHoldSince = NoTime)
  /\ CapEndsDialogue

\* the receptionist declined, the cap passed, and the next "No" ends the call
C31_Witness ==
  /\ Turn
  /\ Elapsed > MAX_CALL_MS
  /\ resp.speech = <<"No">>
  /\ \E i \in DOMAIN resp.before.transcript : resp.before.transcript[i].text = RetryLine
  /\ resp.next = "hangup"

\* the time the agent last asked the receptionist to confirm, read off the
\* transcript: the words between the opening and the closing of the prompt
LastProposed(transcript) ==
  LET asked == SelectSeq(transcript, LAMBDA e : e.from = "ai" /\ e.text # << >>
                                                 /\ e.text[1] = ConfirmLine(<< >>)[1])
      line == asked[Len(asked)].text
  IN  IF asked = << >> THEN << >> ELSE SubSeq(line, 2, Len(line) - 1)

\* C32: when a yes turn confirms a call, the time kept in the session and named
\* in the confirmation message is the one the most recent time-intent turn of
\* the call proposed, not an earlier one.
C32_LatestProposalConfirmed ==
  (YesTurn /\ resp.before.status # "confirmed" /\ After.status = "confirmed") =>
     /\ After.confirmed = LastProposed(resp.before.transcript)
     /\ \A i \in DOMAIN resp.sms :
          resp.sms[i].body = ConfirmedBody(LastProposed(resp.before.transcript),
                                           resp.before.userRequest.clinicName)

\* two different times were proposed, the second is the one confirmed and texted
C32_Witness ==
  /\ YesTurn
  /\ resp.before.status # "confirmed"
  /\ After.status = "confirmed"
  /\ resp.before.transcript[2].text = ConfirmLine(<<"Tuesday", "at", "2pm">>)
  /\ After.confirmed = <<"tomorrow", "morning">>
  /\ resp.sms # << >>
  /\ resp.sms[1].body = ConfirmedBody(<<"tomorrow", "morning">>, "A")

\* the step answers, or suspends, a /gather turn of the call sid that began
\* within the call cap
TurnStep(sid) ==
  /\ resp = NoResp
  /\ resp'.handler \in { "gather", "gather.await" }
  /\ resp'.sid = sid
  /\ resp'.before # NoSession
  /\ resp'.at - resp'.before.startedAt <= MAX_CALL_MS

\* C33: the hold clock of a call is started only by a hold-phrase turn that
\* finds it stopped, and then at the time of that turn; every turn within the
\* cap without a hold phrase, the empty utterance included, stops it; and a turn
\* ends the call on the hold ceiling only if it holds a hold phrase and the
\* clock, started by the first turn of the current run of hold turns, has run
\* for more than MAX_HOLD_MS.
C33_HoldRun ==
  [][ \A sid \in DOMAIN sessionsVoice :
        LET since == sessionsVoice[sid].onHoldSince
            after == sessionsVoice'[sid].onHoldSince
            held == IsHold(ToLower(resp'.speech))
        IN  /\ after # since =>
                 /\ TurnStep(sid)
                 /\ IF held THEN since = NoTime /\ after = now ELSE after = NoTime
            /\ (TurnStep(sid) /\ ~held) => after = NoTime
            /\ (TurnStep(sid) /\ resp'.say = FollowUpLine) =>
                 /\ held
                 /\ resp'.before.onHoldSince # NoTime
                 /\ resp'.at - resp'.before.onHoldSince > MAX_HOLD_MS
    ]_vars

\* the receptionist says nothing more than MAX_HOLD_MS after putting the call on
\* hold: the clock is stopped and the call goes on
C33_Witness ==
  /\ Turn
  /\ Elapsed <= MAX_CALL_MS
  /\ resp.speech = << >>
  /\ resp.before.onHoldSince # NoTime
  /\ resp.at - resp.before.onHoldSince > MAX_HOLD_MS
  /\ After.onHoldSince = NoTime
  /\ resp.next = "gather:5"

\* the messages of the answered handler that tell the patient the clinic ended
\* the call before a confirmation
EndedNotices == { i \in DOMAIN resp.sms : resp.sms[i].body = EndedBody }

\* C34: a call sends its patient at most one outcome notice: /status for a
\* confirmed call sends no ended-before-confirmation notice, and neither does
\* /status for the one call of the service once its hold timeout has told the
\* patient and armed the retry timer for the callback.
C34_OneOutcomeNotice ==
  (resp.handler = "status" /\ resp.before # NoSession) =>
     /\ After.status = "confirmed" => EndedNotices = {}
     /\ (Len(sessionsVoice) = 1 /\ ArmedDefault(resp.before.userRequest.callback)) =>
          EndedNotices = {}

\* C35: a timer callback that placed its call again does not tell the patient
\* that the retry could not be made, whether or not the "retrying" text went out.
C35_FailureNoticeOnlyOnFailure ==
  (resp.handler = "retryTimer" /\ resp.ret = "ok") =>
     \A i \in DOMAIN resp.sms : resp.sms[i].body # RetryFailedBody

\* the provider has created the call of this CallSid
CallCreated(sid) ==
  \/ sid \in DOMAIN sessionsVoice
  \/ \E op \in Accepted : op.ref = sid

\* C36: a /voice or /status webhook of a call the provider has created finds
\* the session of the call in the store, however the webhook and the resumption
\* of startClinicCall interleave; and a placement that failed stores neither a
\* session nor a last-call record.
C36_SessionBeforeWebhook ==
  [][ /\ (/\ resp = NoResp
          /\ resp'.handler \in { "voice", "status" }
          /\ CallCreated(resp'.sid)) => resp'.sid \in DOMAIN sessionsVoice
      /\ (/\ resp = NoResp
          /\ resp'.handler = "call"
          /\ resp'.ret = "error") => UNCHANGED << sessionsVoice, lastCallByPatient >>
    ]_vars

\* C37: once a handler has placed a call for a callback identity, through POST
\* /call or a RETRY text, that identity has no tabled or armed retry timer left
\* that could place another call later.
C37_PlacementLeavesNoTicket ==
  (/\ resp.handler \in { "call", "sms" }
   /\ resp.sid \in DOMAIN sessionsVoice
   /\ After.userRequest.callback # NoCallback) =>
     NoTicket(pendingRetries, timers, After.userRequest.callback)

\* C38: every message a handler dispatches for a call goes to the callback of
\* the session of the call, never to the number of the clinic, and a session
\* without a callback has no message dispatched for it.
C38_NotifyCallbackOnly ==
  (resp.handler \in { "gather", "status" } /\ resp.before # NoSession) =>
     /\ \A i \in DOMAIN resp.sms :
          /\ resp.sms[i].to = resp.before.userRequest.callback
          /\ resp.sms[i].to # resp.before.userRequest.clinicPhone
     /\ resp.before.userRequest.callback = NoCallback => resp.sms = << >>

\* C39: in the /chat/web intake, once a clinic option has been selected
\* (state final_confirm), a YES reply places the clinic call when the chosen
\* clinic has a phone number, and a CANCEL reply returns the session to
\* confirm_choice
ChatWebTurn(from) ==
  /\ Idle
  /\ resp'.handler \in { "chat.web", "chat.web.await" }
  /\ resp'.key = from
  /\ from \in DOMAIN smsSessions
  /\ smsSessions[from].state = "final_confirm"

C39_FinalConfirmReplies ==
  [][\A from \in WebSessions :
       ChatWebTurn(from) =>
         /\ (resp'.speech = <<"Yes">> /\ smsSessions[from].chosenClinic.phone # "")
              => \E op \in inflight' \ inflight :
                   /\ op.kind = "place"
                   /\ op.details.to = smsSessions[from].chosenClinic.phone
         /\ resp'.speech = <<"CANCEL">>
              => smsSessions'[from].state = "confirm_choice"]_vars

====
